---- MODULE Spec2Model ----
(***************************************************************************)
(* Model of the nextjs-dashboard authorization kernel (app/lib/rbac-core,  *)
(* app/lib/rbac) and of the invoice server actions (app/lib/actions).      *)
(*                                                                         *)
(* Two specifications share the variables:                                 *)
(*   Spec      requests running getCurrentUserRole / requireRole and the   *)
(*             invoice actions against an ambient session and a database;  *)
(*   SpecPure  the pure predicates of rbac-core applied to drawn roles.    *)
(***************************************************************************)
EXTENDS Integers, Sequences, FiniteSets, TLC

(***************************************************************************)
(* Bounds of the model                                                     *)
(***************************************************************************)
\* total number of invocations started in one behaviour
MaxCalls == 3
\* number of invoice rows the table can hold
MaxInvoices == 1

Reqs == {"r1", "r2"}
InvoiceIds == 1..MaxInvoices

VARIABLES
    sess,        \* ambient session of each request, owned by the auth subsystem
    pc,          \* position of each request inside the function it runs
    op,          \* function the request invoked last
    required,    \* argument of requireRole
    authState,   \* how the await auth() of the invocation settled
    snap,        \* const session = await auth()
    role,        \* const role = await getCurrentUserRole()
    outcome,     \* how the last invocation of the request ended
    reads,       \* number of auth() reads made by the current invocation
    calls,       \* invocations started so far
    kernelCalls, \* invocations of getCurrentUserRole / requireRole started
    authReads,   \* reads served by the session provider auth()
    deniedBefore, \* an invocation of the request ended with the 403 response
    form,        \* validatedFields.data of the invoice action
    target,      \* id argument of updateInvoice / deleteInvoice
    startRole,   \* role of the caller when the invoice action started
    wrote,       \* the invocation performed its prisma.invoices write
    revalidated, \* the invocation called revalidatePath
    invoices,    \* the invoices table
    atLeastRes,  \* results of isRoleAtLeast, by (role, required)
    canRes,      \* results of canXInvoice, by (predicate, role)
    visitor,     \* session of the browser whose requests the middleware sees
    authzReq,    \* the request last handed to the authorized callback
    authzDecision, \* what the authorized callback returned for it
    env,         \* process.env
    envResult,   \* how validateEnv ended at startup
    customers,   \* the customers table
    foreignKey,  \* what the database does about invoices.customer_id
    custForm,    \* validatedFields.data of the customer action
    custTarget,  \* id argument of updateCustomer / deleteCustomer
    removed,     \* invoices the transaction of deleteCustomer deleted
    listing,     \* the invoices with their customers, as the data functions read them
    pageCount,   \* last call and result of fetchInvoicesPages
    pageRows,    \* last call and result of fetchFilteredInvoices
    fetched,     \* last call and result of fetchInvoiceById
    tblUsers,    \* users table as the seed script sees it: the ids
    tblCustomers, \* customers table as the seed script sees it: the ids
    tblInvoices, \* invoices table as the seed script sees it: rows in insert order
    tblRevenue,  \* revenue table as the seed script sees it
    seedPc,      \* position of the seed script inside main()
    seedRuns,    \* number of times the seed script was started
    userRecord,  \* role of the users row that signs in
    token,       \* the JWT of the browser's session
    signedRole,  \* role the user record had when the token was issued
    issued,      \* session the session callback returned last
    resolved,    \* last result of getCurrentUserRole on such a session
    jwtCalls,    \* number of calls of the jwt callback
    both,        \* last call made to both copies of the RBAC logic, with both results
    compared,    \* number of such calls
    cardPc,      \* position of the rendering inside fetchCardData
    cardPending, \* queries of the Promise.all that have not run yet
    cardRead,    \* what the queries that ran resolved to
    card         \* what fetchCardData returned

vars == <<sess, pc, op, required, authState, snap, role, outcome, reads, calls,
          kernelCalls, authReads, deniedBefore, form,
          target, startRole, wrote, revalidated, invoices, atLeastRes, canRes,
          visitor, authzReq, authzDecision, env, envResult,
          customers, foreignKey, custForm, custTarget, removed,
          listing, pageCount, pageRows, fetched,
          tblUsers, tblCustomers, tblInvoices, tblRevenue, seedPc, seedRuns,
          userRecord, token, signedRole, issued, resolved, jwtCalls,
          both, compared, cardPc, cardPending, cardRead, card>>

kernelVars == <<sess, pc, op, required, authState, snap, role, outcome, reads, calls,
                kernelCalls, authReads, deniedBefore, form, target, startRole, wrote, revalidated, invoices>>
authzVars == <<visitor, authzReq, authzDecision>>
envVars == <<env, envResult>>
dbVars == <<customers, foreignKey, custForm, custTarget, removed>>
pageVars == <<listing, pageCount, pageRows>>
byIdVars == <<fetched>>
seedVars == <<tblUsers, tblCustomers, tblInvoices, tblRevenue, seedPc, seedRuns>>
tokenVars == <<userRecord, token, signedRole, issued, resolved, jwtCalls>>
\* the variables of the last sections
copyVars == <<both, compared>>
cardVars == <<cardPc, cardPending, cardRead, card>>
restVars == <<tokenVars, copyVars, cardVars>>
\* the variables of the later sections
moreVars == <<dbVars, pageVars, byIdVars, seedVars, restVars>>
\* what the actions on the tables leave alone
nonDbVars == <<atLeastRes, canRes, authzVars, envVars, pageVars, byIdVars,
               seedVars, restVars>>
\* what the calls of the listing leave alone
nonPageVars == <<kernelVars, atLeastRes, canRes, authzVars, envVars, dbVars,
                 byIdVars, seedVars, restVars>>
\* what a call of fetchInvoiceById leaves alone
nonByIdVars == <<kernelVars, atLeastRes, canRes, authzVars, envVars, dbVars,
                 pageVars, seedVars, restVars>>
\* what the seed script leaves alone
nonSeedVars == <<kernelVars, atLeastRes, canRes, authzVars, envVars, customers,
                 custForm, custTarget, removed, pageVars, byIdVars, restVars>>
\* what the callbacks of auth.config leave alone
nonTokenVars == <<kernelVars, atLeastRes, canRes, authzVars, envVars, dbVars,
                  pageVars, byIdVars, seedVars, copyVars, cardVars>>
\* what a call to both copies of the RBAC logic leaves alone
nonCopyVars == <<kernelVars, atLeastRes, canRes, authzVars, envVars, dbVars,
                 pageVars, byIdVars, seedVars, tokenVars, cardVars>>
\* what fetchCardData leaves alone
nonCardVars == <<kernelVars, atLeastRes, canRes, authzVars, envVars, dbVars,
                 pageVars, byIdVars, seedVars, tokenVars, copyVars>>
pureVars == <<atLeastRes, canRes, authzVars, envVars, moreVars>>

(***************************************************************************)
(* rbac-core: the role hierarchy and the predicates                        *)
(***************************************************************************)
Roles == {"viewer", "editor", "admin"}

\* the rank table with admin given the rank of editor
roleRank_AdminAsEditor == [viewer |-> 1, editor |-> 2, admin |-> 2]

\* the rank table with two roles sharing a rank
roleRank_Tied == [viewer |-> 1, editor |-> 1, admin |-> 3]

roleRank == [viewer |-> 1, editor |-> 2, admin |-> 3]

\* the comparison written with > in place of >=
isRoleAtLeast_Strict(r, req) == roleRank[r] > roleRank[req]

\* the comparison off by one rank
isRoleAtLeast_OffByOne(r, req) == roleRank[r] + 1 >= roleRank[req]

isRoleAtLeast(r, req) == roleRank[r] >= roleRank[req]

\* creation gated at the threshold of deletion
canCreateInvoice_Admin(r) == isRoleAtLeast(r, "admin")

canCreateInvoice(r) == isRoleAtLeast(r, "editor")

\* update gated at the threshold of deletion
canUpdateInvoice_Admin(r) == isRoleAtLeast(r, "admin")

canUpdateInvoice(r) == isRoleAtLeast(r, "editor")

\* deletion gated at the threshold of update
canDeleteInvoice_Editor(r) == isRoleAtLeast(r, "editor")

canDeleteInvoice(r) == isRoleAtLeast(r, "admin")

(***************************************************************************)
(* rbac: the session and the role read off it                              *)
(***************************************************************************)
Undefined == "undefined"

\* auth() yields null, a session without user, a user without role, or a
\* user with a role
Sessions ==
    { [exists |-> FALSE, hasUser |-> FALSE, role |-> Undefined],
      [exists |-> TRUE,  hasUser |-> FALSE, role |-> Undefined],
      [exists |-> TRUE,  hasUser |-> TRUE,  role |-> Undefined] }
    \cup { [exists |-> TRUE, hasUser |-> TRUE, role |-> r] : r \in Roles }

NoSession == [exists |-> FALSE, hasUser |-> FALSE, role |-> Undefined]

\* session?.user?.role
SessionRole(s) ==
    IF ~s.exists THEN Undefined
    ELSE IF ~s.hasUser THEN Undefined
    ELSE s.role

\* the default of an absent role set to a privileged role
ResolveRole_DefaultEditor(s) ==
    IF SessionRole(s) = Undefined THEN "editor" ELSE SessionRole(s)

\* session?.user?.role ?? 'viewer'
ResolveRole(s) ==
    IF SessionRole(s) = Undefined THEN "viewer" ELSE SessionRole(s)

(***************************************************************************)
(* Outcomes of an invocation                                               *)
(***************************************************************************)
NoOutcome == [kind |-> "none", role |-> Undefined, status |-> 0, body |-> ""]

\* return role
Returned(r) == [kind |-> "return", role |-> r, status |-> 0, body |-> ""]

\* throw new Response('Forbidden', { status: 403 })
Forbidden == [kind |-> "response", role |-> Undefined, status |-> 403,
              body |-> "Forbidden"]

\* the rejection of auth() reaching the caller
AuthFailure == [kind |-> "authError", role |-> Undefined, status |-> 0,
                body |-> ""]

Ended(kind, msg) == [kind |-> kind, role |-> Undefined, status |-> 0,
                     body |-> msg]

(***************************************************************************)
(* schemas/invoice and the invoices table                                  *)
(***************************************************************************)
Null == "null"

FormCustomerIds == {Null, "", "c1"}
FormAmounts == {-1, 0, 1}
FormStatuses == {"pending", "paid", "draft"}
Forms == [customerId : FormCustomerIds, amount : FormAmounts,
          status : FormStatuses]

NoForm == [customerId |-> Null, amount |-> 0, status |-> "draft"]

\* CreateInvoice.safeParse / UpdateInvoice.safeParse: customerId a string,
\* amount a number greater than 0, status one of pending and paid
ParseSuccess(f) ==
    /\ f.customerId # Null
    /\ f.amount > 0
    /\ f.status \in {"pending", "paid"}

NoInvoice == [customer_id |-> Null, amount |-> 0, status |-> "none"]

InvoiceRow(f) ==
    [customer_id |-> f.customerId, amount |-> f.amount * 100,
     status |-> f.status]

Present(id) == invoices[id] # NoInvoice

(***************************************************************************)
(* schemas/customer and the customers table                                *)
(***************************************************************************)
CustomerIds == {"c1", "c2"}

CustNames == {Null, "Amy", "Bob"}
CustEmails == {"notanemail", "amy@burns.com"}
CustForms == [name : CustNames, email : CustEmails]

NoCustForm == [name |-> Null, email |-> "notanemail"]

\* z.string().email()
IsEmail(e) == e = "amy@burns.com"

\* CreateCustomer.safeParse / UpdateCustomer.safeParse: name a string, email
\* an email address
CustomerParseSuccess(cf) ==
    /\ cf.name # Null
    /\ IsEmail(cf.email)

NoCustomer == [name |-> Null, email |-> Null, image_url |-> Null]

DefaultImage == "/customers/amy-burns.png"

CustomerRow(cf) ==
    [name |-> cf.name, email |-> cf.email, image_url |-> DefaultImage]

CustomerPresent(id) == id \in CustomerIds /\ customers[id] # NoCustomer

\* what the database does about invoices.customer_id: nothing, refuse a
\* statement that would leave an invoice without its customer, or delete the
\* invoices together with their customer
FkModes == {"none", "restrict", "cascade"}

\* an invoice row with this customer_id is acceptable to the database
ForeignKeyHolds(customerId) ==
    foreignKey = "none" \/ CustomerPresent(customerId)

(***************************************************************************)
(* data: fetchFilteredInvoices and fetchInvoicesPages                      *)
(***************************************************************************)
\* largest number of invoices of one kind in the listing
MaxPerKind == 7

ITEMS_PER_PAGE == 6

\* strings, as sequences of characters
Str_Empty == <<>>
Str_paid == <<"p", "a", "i", "d">>
Str_pending == <<"p", "e", "n", "d", "i", "n", "g">>
Str_AMY == <<"A", "M", "Y">>
Str_666 == <<"6", "6", "6">>
Str_zzz == <<"z", "z", "z">>
Str_Date1 == <<"2", "0", "2", "2", "-", "1", "2", "-", "0", "6">>
Str_Date2 == <<"2", "0", "2", "3", "-", "0", "6", "-", "0", "9">>

AmyBurns == [name |-> <<"A", "m", "y">>,
             email |-> <<"a", "m", "y", "@", "b", ".", "c", "o", "m">>]
LeeRobinson == [name |-> <<"L", "e", "e">>,
                email |-> <<"l", "e", "e", "@", "r", ".", "c", "o", "m">>]
\* the customer of an invoice whose customer_id matches no customer
NullCustomer == [name |-> <<>>, email |-> <<>>]

\* the kinds of invoice the listing holds, latest date first
RowKinds == {
    [customer |-> LeeRobinson, status |-> Str_paid, amount |-> 100,
     date |-> Str_Date2],
    [customer |-> AmyBurns, status |-> Str_pending, amount |-> 666,
     date |-> Str_Date1],
    [customer |-> NullCustomer, status |-> Str_pending, amount |-> 666,
     date |-> Str_Date1]}

Queries == {Str_Empty, Str_paid, Str_AMY, Str_666, Str_zzz, Str_Date1}

\* toLowerCase over the letters in use (mode: 'insensitive')
LowerChar(c) ==
    CASE c = "A" -> "a" [] c = "M" -> "m" [] c = "Y" -> "y" [] c = "L" -> "l"
      [] OTHER -> c

Lower(str) == [i \in DOMAIN str |-> LowerChar(str[i])]

\* { contains: query, mode: 'insensitive' }
ContainsInsensitive(str, query) ==
    \E i \in 0..(Len(str) - Len(query)) :
        Lower(SubSeq(str, i + 1, i + Len(query))) = Lower(query)

DigitChars == {"0", "1", "2", "3", "4", "5", "6", "7", "8", "9"}

DigitValue(c) ==
    CASE c = "0" -> 0 [] c = "1" -> 1 [] c = "2" -> 2 [] c = "3" -> 3
      [] c = "4" -> 4 [] c = "5" -> 5 [] c = "6" -> 6 [] c = "7" -> 7
      [] c = "8" -> 8 [] c = "9" -> 9

RECURSIVE DecimalValue(_)
DecimalValue(str) ==
    IF Len(str) = 0 THEN 0
    ELSE 10 * DecimalValue(SubSeq(str, 1, Len(str) - 1))
           + DigitValue(str[Len(str)])

\* Number(query): 0 for the empty string, the value of a row of digits, NaN
\* for the other strings in use
NumberOf(query) ==
    IF \A i \in DOMAIN query : query[i] \in DigitChars
    THEN [isNaN |-> FALSE, value |-> DecimalValue(query)]
    ELSE [isNaN |-> TRUE, value |-> 0]

\* !isNaN(new Date(query).getTime()) && query.length >= 10, for a query of
\* the form YYYY-MM-DD
IsDateQuery(query) ==
    /\ Len(query) >= 10
    /\ Len(query) = 10
    /\ \A i \in {1, 2, 3, 4, 6, 7, 9, 10} : query[i] \in DigitChars
    /\ query[5] = "-"
    /\ query[8] = "-"

\* the where clause both functions build: the invoice has a customer, and
\* the query is found in the customer's name or email or in the status, or is
\* a positive number equal to the amount, or is a date equal to the date
Matches(row, query) ==
    /\ row.customer # NullCustomer
    /\ \/ ContainsInsensitive(row.customer.name, query)
       \/ ContainsInsensitive(row.customer.email, query)
       \/ ContainsInsensitive(row.status, query)
       \/ /\ ~NumberOf(query).isNaN
          /\ NumberOf(query).value > 0
          /\ row.amount = NumberOf(query).value
       \/ /\ IsDateQuery(query)
          /\ row.date = query

\* the rows of the listing, in the order orderBy: { date: 'desc' } gives
RECURSIVE Repeat(_, _)
Repeat(row, n) == IF n = 0 THEN <<>> ELSE <<row>> \o Repeat(row, n - 1)

RECURSIVE RowsOf(_, _)
RowsOf(t, kinds) ==
    IF kinds = {} THEN <<>>
    ELSE LET k == CHOOSE x \in kinds :
                     \A y \in kinds : DecimalValue(SelectSeq(y.date,
                                          LAMBDA c : c \in DigitChars))
                                      <= DecimalValue(SelectSeq(x.date,
                                          LAMBDA c : c \in DigitChars))
         IN  Repeat(k, t[k]) \o RowsOf(t, kinds \ {k})

Ordered(t) == RowsOf(t, RowKinds)

\* Math.ceil(count / ITEMS_PER_PAGE)
CeilDiv(n, d) == IF n % d = 0 THEN n \div d ELSE (n \div d) + 1

\* take and skip of findMany
TakeSkip(rows, take, skip) ==
    SubSeq(rows, skip + 1, IF skip + take < Len(rows) THEN skip + take
                           ELSE Len(rows))

\* the count counting every invoice of the table, matching or not
fetchInvoicesPages_Unfiltered(t, query) ==
    CeilDiv(Len(Ordered(t)), ITEMS_PER_PAGE)

fetchInvoicesPages(t, query) ==
    LET count == Len(SelectSeq(Ordered(t), LAMBDA row : Matches(row, query)))
    IN  CeilDiv(count, ITEMS_PER_PAGE)

fetchFilteredInvoices(t, query, currentPage) ==
    LET offset == (currentPage - 1) * ITEMS_PER_PAGE
        found == SelectSeq(Ordered(t), LAMBDA row : Matches(row, query))
    IN  TakeSkip(found, ITEMS_PER_PAGE, offset)

NoPageCount == [made |-> FALSE, query |-> Str_Empty, pages |-> 0]
NoPageRows == [made |-> FALSE, query |-> Str_Empty, page |-> 1, rows |-> <<>>]

\* the pages a caller may ask for
PageNumbers == 1..(CeilDiv(Cardinality(RowKinds) * MaxPerKind, ITEMS_PER_PAGE) + 1)

(***************************************************************************)
(* data: fetchInvoiceById                                                  *)
(***************************************************************************)
\* invoice.amount / 100, as units and hundredths
DividedBy100(amount) == [units |-> amount \div 100, hundredths |-> amount % 100]

\* the null findUnique resolves to when no row has the id
NotFound == [found |-> FALSE]

NoFetched == [made |-> FALSE, id |-> 1, result |-> NotFound]

\* fetchInvoiceById handing the stored amount on as it is
fetchInvoiceById_Cents(tbl, id) ==
    IF tbl[id] = NoInvoice THEN NotFound
    ELSE [found |-> TRUE, id |-> id, customer_id |-> tbl[id].customer_id,
          amount |-> [units |-> tbl[id].amount, hundredths |-> 0],
          status |-> tbl[id].status]

\* findUnique({ where: { id } }); null when there is no such invoice
fetchInvoiceById(tbl, id) ==
    IF tbl[id] = NoInvoice THEN NotFound
    ELSE [found |-> TRUE, id |-> id, customer_id |-> tbl[id].customer_id,
          amount |-> DividedBy100(tbl[id].amount),
          status |-> tbl[id].status]

(***************************************************************************)
(* auth.config: the jwt and session callbacks                              *)
(***************************************************************************)
\* user.role of a users row read at sign-in: a role, undefined or null
UserRoles == Roles \cup {Undefined, Null}

NoUser == [present |-> FALSE, role |-> Undefined]
SignedInUser(r) == [present |-> TRUE, role |-> r]

NoToken == [live |-> FALSE, role |-> Undefined]

\* if (token.role): undefined and null are falsy, a role is not
Truthy(r) == r \notin {Undefined, Null}

\* the jwt callback writing user?.role on every call
jwt_AlwaysCopies(tok, user) == [tok EXCEPT !.role = user.role]

\* jwt({ token, user }): if (user) token.role = user.role; return token
jwt(tok, user) ==
    IF user.present THEN [tok EXCEPT !.role = user.role] ELSE tok

\* session({ session, token }):
\* if (session.user && token.role) session.user.role = token.role; return session
session(s, tok) ==
    IF s.hasUser /\ Truthy(tok.role) THEN [s EXCEPT !.role = tok.role] ELSE s

\* the session object the library hands to the callback, with or without user
FreshSession(hasUser) == [exists |-> TRUE, hasUser |-> hasUser, role |-> Undefined]

NotResolved == [made |-> FALSE, hasUser |-> FALSE, role |-> Undefined]

(***************************************************************************)
(* The standalone copy of the RBAC logic, and rbac composed with rbac-core *)
(* as functions of the session                                             *)
(***************************************************************************)
standalone_roleRank == [viewer |-> 1, editor |-> 2, admin |-> 3]

standalone_isRoleAtLeast(r, req) ==
    standalone_roleRank[r] >= standalone_roleRank[req]

standalone_canCreateInvoice(r) == standalone_isRoleAtLeast(r, "editor")

standalone_canUpdateInvoice(r) == standalone_isRoleAtLeast(r, "editor")

standalone_canDeleteInvoice(r) == standalone_isRoleAtLeast(r, "admin")

\* the standalone copy defaulting an absent role to editor
standalone_getCurrentUserRole_Editor(s) ==
    IF ~s.exists \/ ~s.hasUser \/ s.role = Undefined THEN "editor" ELSE s.role

\* const session = await auth(); return session?.user?.role ?? 'viewer'
standalone_getCurrentUserRole(s) ==
    IF ~s.exists \/ ~s.hasUser \/ s.role = Undefined THEN "viewer" ELSE s.role

\* const role = await getCurrentUserRole();
\* if (!isRoleAtLeast(role, required)) throw new Response('Forbidden', { status: 403 });
\* return role
standalone_requireRole(s, req) ==
    IF ~standalone_isRoleAtLeast(standalone_getCurrentUserRole(s), req)
    THEN [kind |-> "response", role |-> Undefined, status |-> 403,
          body |-> "Forbidden"]
    ELSE [kind |-> "return", role |-> standalone_getCurrentUserRole(s),
          status |-> 0, body |-> ""]

\* requireRole of rbac on a session auth() yields
requireRole(s, req) ==
    IF ~isRoleAtLeast(ResolveRole(s), req)
    THEN Forbidden
    ELSE Returned(ResolveRole(s))

Exported == {"isRoleAtLeast", "canCreateInvoice", "canUpdateInvoice",
             "canDeleteInvoice", "getCurrentUserRole", "requireRole"}

\* the result of an exported function of rbac with rbac-core
OfRbac(fn, s, r, req) ==
    CASE fn = "isRoleAtLeast" -> [bool |-> isRoleAtLeast(r, req)]
      [] fn = "canCreateInvoice" -> [bool |-> canCreateInvoice(r)]
      [] fn = "canUpdateInvoice" -> [bool |-> canUpdateInvoice(r)]
      [] fn = "canDeleteInvoice" -> [bool |-> canDeleteInvoice(r)]
      [] fn = "getCurrentUserRole" -> [resolved |-> ResolveRole(s)]
      [] fn = "requireRole" -> [settled |-> requireRole(s, req)]

\* the result of the function of that name of the standalone copy
OfStandalone(fn, s, r, req) ==
    CASE fn = "isRoleAtLeast" -> [bool |-> standalone_isRoleAtLeast(r, req)]
      [] fn = "canCreateInvoice" -> [bool |-> standalone_canCreateInvoice(r)]
      [] fn = "canUpdateInvoice" -> [bool |-> standalone_canUpdateInvoice(r)]
      [] fn = "canDeleteInvoice" -> [bool |-> standalone_canDeleteInvoice(r)]
      [] fn = "getCurrentUserRole" -> [resolved |-> standalone_getCurrentUserRole(s)]
      [] fn = "requireRole" -> [settled |-> standalone_requireRole(s, req)]

NotCompared == [made |-> FALSE, fn |-> "isRoleAtLeast", session |-> NoSession,
                role |-> "viewer", required |-> "viewer",
                rbac |-> [bool |-> TRUE], standalone |-> [bool |-> TRUE]]

(***************************************************************************)
(* data: fetchCardData                                                     *)
(***************************************************************************)
\* the four queries handed to Promise.all
CardQueries == {"invoices.count", "customers.count", "aggregate.paid",
                "aggregate.pending"}

\* prisma.invoices.count()
invoices_count(tbl) == Cardinality({id \in DOMAIN tbl : tbl[id] # NoInvoice})

\* prisma.customers.count()
customers_count(cust) == Cardinality({c \in DOMAIN cust : cust[c] # NoCustomer})

RECURSIVE SumAmounts(_, _, _)
SumAmounts(tbl, ids, status) ==
    IF ids = {} THEN 0
    ELSE LET id == CHOOSE x \in ids : TRUE
         IN  (IF tbl[id].status = status THEN tbl[id].amount ELSE 0)
             + SumAmounts(tbl, ids \ {id}, status)

\* prisma.invoices.aggregate({ _sum: { amount: true }, where: { status } }):
\* _sum.amount is null when no row has the status
aggregate(tbl, status) ==
    IF \A id \in DOMAIN tbl : tbl[id].status # status
    THEN [isNull |-> TRUE, amount |-> 0]
    ELSE [isNull |-> FALSE, amount |-> SumAmounts(tbl, DOMAIN tbl, status)]

\* agg._sum.amount ?? 0
OrZero(agg) == IF agg.isNull THEN 0 ELSE agg.amount

NothingRead == [numberOfInvoices |-> 0, numberOfCustomers |-> 0,
                paidAgg |-> [isNull |-> TRUE, amount |-> 0],
                pendingAgg |-> [isNull |-> TRUE, amount |-> 0]]

\* the object fetchCardData returns; the totals are the numbers handed to
\* formatCurrency
CardOf(read) ==
    [made |-> TRUE,
     numberOfCustomers |-> read.numberOfCustomers,
     numberOfInvoices |-> read.numberOfInvoices,
     totalPaidInvoices |-> OrZero(read.paidAgg),
     totalPendingInvoices |-> OrZero(read.pendingAgg)]

NoCard == [made |-> FALSE, numberOfCustomers |-> 0, numberOfInvoices |-> 0,
           totalPaidInvoices |-> 0, totalPendingInvoices |-> 0]

\* what the four queries resolve to on one content of the tables
ReadOf(tbl, cust) ==
    [numberOfInvoices |-> invoices_count(tbl),
     numberOfCustomers |-> customers_count(cust),
     paidAgg |-> aggregate(tbl, "paid"),
     pendingAgg |-> aggregate(tbl, "pending")]

(***************************************************************************)
(* prisma/seed.js: the data and the steps of main()                        *)
(***************************************************************************)
MaxSeedRuns == 2

seed_users == <<"410544b2">>

seed_customers == <<"d6e15727", "3958dc9e-712f", "3958dc9e-742f", "76d65c26",
                    "CC27C14A", "13D07535">>

\* customers[k].id of the script; its indices start at 0
CustomerAt(k) == seed_customers[k + 1]

SeedInvoice(k, amount, status) ==
    [customer_id |-> CustomerAt(k), amount |-> amount, status |-> status]

seed_invoices ==
    << SeedInvoice(0, 15795, "pending"), SeedInvoice(1, 20348, "pending"),
       SeedInvoice(4, 3040, "paid"),     SeedInvoice(3, 44800, "paid"),
       SeedInvoice(5, 34577, "pending"), SeedInvoice(2, 54246, "pending"),
       SeedInvoice(0, 666, "pending"),   SeedInvoice(3, 32545, "paid"),
       SeedInvoice(4, 1250, "paid"),     SeedInvoice(5, 8546, "paid"),
       SeedInvoice(1, 500, "paid"),      SeedInvoice(5, 8945, "paid"),
       SeedInvoice(2, 1000, "paid") >>

seed_revenue ==
    << [month |-> "Jan", revenue |-> 2000], [month |-> "Feb", revenue |-> 1800],
       [month |-> "Mar", revenue |-> 2200], [month |-> "Apr", revenue |-> 2500],
       [month |-> "May", revenue |-> 2300], [month |-> "Jun", revenue |-> 3200],
       [month |-> "Jul", revenue |-> 3500], [month |-> "Aug", revenue |-> 3700],
       [month |-> "Sep", revenue |-> 2500], [month |-> "Oct", revenue |-> 2800],
       [month |-> "Nov", revenue |-> 3000], [month |-> "Dec", revenue |-> 4800] >>

\* rows another run or the application left behind
OtherUser == "other-user"
OtherCustomer == "other-customer"
LeftInvoices ==
    { <<>>,
      << SeedInvoice(0, 666, "pending") >>,
      << [customer_id |-> OtherCustomer, amount |-> 100, status |-> "paid"] >> }
LeftRevenue == { {}, {[month |-> "Jan", revenue |-> 1]} }

SeedIdle == [at |-> "idle", i |-> 0]
SeedAt(at, i) == [at |-> at, i |-> i]

\* the rows of a table that refer to a customer of the set
Referring(rows, ids) == SelectSeq(rows, LAMBDA row : row.customer_id \in ids)
NotReferring(rows, ids) == SelectSeq(rows, LAMBDA row : row.customer_id \notin ids)

(***************************************************************************)
(* auth.config: the authorized callback of the middleware                  *)
(***************************************************************************)
\* pathnames, as sequences of characters
DashboardPath == <<"/", "d", "a", "s", "h", "b", "o", "a", "r", "d">>
LoginPath == <<"/", "l", "o", "g", "i", "n">>
RootPath == <<"/">>
InvoicesPage == DashboardPath \o <<"/", "i", "n", "v", "o", "i", "c", "e", "s">>
DashboardsPath == DashboardPath \o <<"s">>
DashPath == <<"/", "d", "a", "s", "h">>

Pathnames == {DashboardPath, InvoicesPage, DashboardsPath, DashPath,
              RootPath, LoginPath}

\* String.prototype.startsWith
StartsWith(str, prefix) ==
    /\ Len(str) >= Len(prefix)
    /\ SubSeq(str, 1, Len(prefix)) = prefix

NoRequest == [made |-> FALSE, auth |-> NoSession, pathname |-> RootPath]
NoDecision == [kind |-> "none", to |-> <<>>]

\* return true
Allow == [kind |-> "allow", to |-> <<>>]
\* return false: the request is refused and sent to pages.signIn
Refuse == [kind |-> "refuse", to |-> LoginPath]
\* return Response.redirect(new URL('/dashboard', nextUrl))
RedirectTo(path) == [kind |-> "redirect", to |-> path]

\* the dashboard test written as an equality with '/dashboard'
authorized_ExactPath(auth, pathname) ==
    LET isLoggedIn == auth.exists /\ auth.hasUser
        isOnDashboard == pathname = DashboardPath
    IN  IF isOnDashboard
        THEN IF isLoggedIn THEN Allow ELSE Refuse
        ELSE IF isLoggedIn THEN RedirectTo(DashboardPath)
        ELSE Allow

authorized(auth, pathname) ==
    LET isLoggedIn == auth.exists /\ auth.hasUser
        isOnDashboard == StartsWith(pathname, DashboardPath)
    IN  IF isOnDashboard
        THEN IF isLoggedIn THEN Allow ELSE Refuse
        ELSE IF isLoggedIn THEN RedirectTo(DashboardPath)
        ELSE Allow

(***************************************************************************)
(* env: validateEnv                                                        *)
(***************************************************************************)
requiredEnvVars ==
    <<"AUTH_SECRET", "DATABASE_URL", "PGUSER", "PGDATABASE", "PGPASSWORD">>

\* the variables the setup guide lists as required
EnvNames == {"AUTH_SECRET", "DATABASE_URL", "PGHOST", "PGUSER", "PGPASSWORD",
             "PGDATABASE"}

\* a variable is unset, set to the empty string, or set to a value
EnvValues == {Undefined, "", "value"}

\* !process.env[envVar]
Falsy(v) == v = Undefined \/ v = ""

\* Array.prototype.join
RECURSIVE Join(_, _)
Join(seq, sep) ==
    IF Len(seq) = 0 THEN <<>>
    ELSE IF Len(seq) = 1 THEN seq
    ELSE <<Head(seq), sep>> \o Join(Tail(seq), sep)

MissingHead == "Missing required environment variables: "
MissingHint ==
    "Please copy .env.example to .env and fill in the required values."

NotRun == [kind |-> "none", message |-> <<>>]
EnvOk == [kind |-> "return", message |-> <<>>]
EnvError(missing) ==
    [kind |-> "throw",
     message |-> <<MissingHead>> \o Join(missing, ", ")
                    \o <<"\n", MissingHint>>]

\* the loop leaving at the first missing variable
validateEnv_FirstOnly(e) ==
    LET missing == SelectSeq(requiredEnvVars, LAMBDA v : Falsy(e[v]))
    IN  IF Len(missing) > 0 THEN EnvError(<<Head(missing)>>) ELSE EnvOk

validateEnv(e) ==
    LET missing == SelectSeq(requiredEnvVars, LAMBDA v : Falsy(e[v]))
    IN  IF Len(missing) > 0 THEN EnvError(missing) ELSE EnvOk

(***************************************************************************)
(* Initial state                                                           *)
(***************************************************************************)
InitLocals ==
    /\ pc = [r \in Reqs |-> "idle"]
    /\ op = [r \in Reqs |-> "none"]
    /\ required = [r \in Reqs |-> "viewer"]
    /\ authState = [r \in Reqs |-> "none"]
    /\ snap = [r \in Reqs |-> NoSession]
    /\ role = [r \in Reqs |-> Undefined]
    /\ outcome = [r \in Reqs |-> NoOutcome]
    /\ reads = [r \in Reqs |-> 0]
    /\ calls = 0
    /\ kernelCalls = 0
    /\ authReads = 0
    /\ deniedBefore = [r \in Reqs |-> FALSE]
    /\ form = [r \in Reqs |-> NoForm]
    /\ target = [r \in Reqs |-> 1]
    /\ startRole = [r \in Reqs |-> "viewer"]
    /\ wrote = [r \in Reqs |-> FALSE]
    /\ revalidated = [r \in Reqs |-> FALSE]
    /\ invoices = [i \in InvoiceIds |-> NoInvoice]

InitPredicates ==
    /\ atLeastRes = [p \in {} |-> TRUE]
    /\ canRes = [p \in {} |-> TRUE]

InitAuthz ==
    /\ authzReq = NoRequest
    /\ authzDecision = NoDecision

\* one customer on file, a database without a constraint on customer_id
InitDb ==
    /\ customers = [id \in CustomerIds |->
                      IF id = "c1"
                      THEN [name |-> "Amy", email |-> "amy@burns.com",
                            image_url |-> DefaultImage]
                      ELSE NoCustomer]
    /\ foreignKey = "none"
    /\ custForm = [r \in Reqs |-> NoCustForm]
    /\ custTarget = [r \in Reqs |-> "c1"]
    /\ removed = [r \in Reqs |-> 0]

InitPage ==
    /\ pageCount = NoPageCount
    /\ pageRows = NoPageRows

InitSeed ==
    /\ tblUsers = {}
    /\ tblCustomers = {}
    /\ tblInvoices = <<>>
    /\ tblRevenue = {}
    /\ seedPc = SeedIdle
    /\ seedRuns = 0

InitToken ==
    /\ userRecord = Undefined
    /\ token = NoToken
    /\ signedRole = Undefined
    /\ issued = NoSession
    /\ resolved = NotResolved
    /\ jwtCalls = 0

InitCopies ==
    /\ both = NotCompared
    /\ compared = 0

InitCard ==
    /\ cardPc = "idle"
    /\ cardPending = {}
    /\ cardRead = NothingRead
    /\ card = NoCard

InitRest == InitToken /\ InitCopies /\ InitCard

InitMore ==
    /\ InitDb
    /\ listing = [k \in RowKinds |-> 0]
    /\ InitPage
    /\ fetched = NoFetched
    /\ InitSeed
    /\ InitRest

InitPure ==
    /\ InitPredicates
    /\ visitor = NoSession
    /\ InitAuthz
    /\ env = [v \in EnvNames |-> "value"]
    /\ envResult = NotRun
    /\ InitMore

\* the request whose invocations Spec follows
Client == "r1"

Init ==
    /\ sess \in {[r \in Reqs |-> IF r = Client THEN s ELSE NoSession] :
                    s \in Sessions}
    /\ InitLocals
    /\ InitPure

\* a request enters function f
Enter(r, f) ==
    /\ pc[r] = "idle"
    /\ calls < MaxCalls
    /\ calls' = calls + 1
    /\ op' = [op EXCEPT ![r] = f]
    /\ reads' = [reads EXCEPT ![r] = 0]
    /\ authState' = [authState EXCEPT ![r] = "none"]
    /\ snap' = [snap EXCEPT ![r] = NoSession]
    /\ role' = [role EXCEPT ![r] = Undefined]
    /\ wrote' = [wrote EXCEPT ![r] = FALSE]
    /\ revalidated' = [revalidated EXCEPT ![r] = FALSE]
    /\ startRole' = [startRole EXCEPT ![r] = ResolveRole(sess[r])]

(***************************************************************************)
(* rbac: getCurrentUserRole and requireRole                                *)
(***************************************************************************)
CallGetCurrentUserRole(r) ==
    /\ Enter(r, "getCurrentUserRole")
    /\ outcome' = [outcome EXCEPT ![r] = NoOutcome]
    /\ required' = [required EXCEPT ![r] = "viewer"]
    /\ form' = [form EXCEPT ![r] = NoForm]
    /\ target' = [target EXCEPT ![r] = 1]
    /\ pc' = [pc EXCEPT ![r] = "auth"]
    /\ kernelCalls' = kernelCalls + 1
    /\ UNCHANGED <<deniedBefore, authReads, sess, invoices, pureVars>>

CallRequireRole(r, req) ==
    /\ Enter(r, "requireRole")
    /\ outcome' = [outcome EXCEPT ![r] = NoOutcome]
    /\ required' = [required EXCEPT ![r] = req]
    /\ form' = [form EXCEPT ![r] = NoForm]
    /\ target' = [target EXCEPT ![r] = 1]
    /\ pc' = [pc EXCEPT ![r] = "auth"]
    /\ kernelCalls' = kernelCalls + 1
    /\ UNCHANGED <<deniedBefore, authReads, sess, invoices, pureVars>>

\* the session kept in one module-level slot shared by all requests
AuthResolve_SharedSession(r) ==
    /\ pc[r] = "auth"
    /\ snap' = [snap EXCEPT ![r] = sess[Client]]
    /\ authState' = [authState EXCEPT ![r] = "resolved"]
    /\ reads' = [reads EXCEPT ![r] = @ + 1]
    /\ authReads' = authReads + 1
    /\ pc' = [pc EXCEPT ![r] = "session"]
    /\ UNCHANGED <<deniedBefore, kernelCalls, sess, op, required, role, outcome, calls, form, target,
                   startRole, wrote, revalidated, invoices, pureVars>>

\* the session memoised after the first read: later invocations do not read
AuthResolve_Memoised(r) ==
    /\ pc[r] = "auth"
    /\ IF authReads = 0
       THEN /\ snap' = [snap EXCEPT ![r] = sess[r]]
            /\ reads' = [reads EXCEPT ![r] = @ + 1]
            /\ authReads' = authReads + 1
       ELSE UNCHANGED <<snap, reads, authReads>>
    /\ authState' = [authState EXCEPT ![r] = "resolved"]
    /\ pc' = [pc EXCEPT ![r] = "session"]
    /\ UNCHANGED <<deniedBefore, kernelCalls, sess, op, required, role, outcome, calls, form, target,
                   startRole, wrote, revalidated, invoices, pureVars>>

\* await auth() resolves with the session of the request
AuthResolve(r) ==
    /\ pc[r] = "auth"
    /\ snap' = [snap EXCEPT ![r] = sess[r]]
    /\ authState' = [authState EXCEPT ![r] = "resolved"]
    /\ reads' = [reads EXCEPT ![r] = @ + 1]
    /\ authReads' = authReads + 1
    /\ pc' = [pc EXCEPT ![r] = "session"]
    /\ UNCHANGED <<deniedBefore, kernelCalls, sess, op, required, role, outcome, calls, form, target,
                   startRole, wrote, revalidated, invoices, pureVars>>

\* await auth() rejects
AuthReject(r) ==
    /\ pc[r] = "auth"
    /\ authState' = [authState EXCEPT ![r] = "rejected"]
    /\ reads' = [reads EXCEPT ![r] = @ + 1]
    /\ authReads' = authReads + 1
    /\ pc' = [pc EXCEPT ![r] = "rejected"]
    /\ UNCHANGED <<deniedBefore, kernelCalls, sess, op, required, snap, role, outcome, calls, form,
                   target, startRole, wrote, revalidated, invoices, pureVars>>

\* a catch around the await that falls back to the default role
AuthRejectionPropagates_Swallowed(r) ==
    /\ pc[r] = "rejected"
    /\ outcome' = [outcome EXCEPT ![r] = Returned("viewer")]
    /\ pc' = [pc EXCEPT ![r] = "idle"]
    /\ UNCHANGED <<deniedBefore, kernelCalls, authReads, sess, op, required, authState, snap, role, reads, calls,
                   form, target, startRole, wrote, revalidated, invoices,
                   pureVars>>

\* neither getCurrentUserRole nor requireRole has a catch around its await:
\* the rejection of auth() reaches the caller
AuthRejectionPropagates(r) ==
    /\ pc[r] = "rejected"
    /\ outcome' = [outcome EXCEPT ![r] = AuthFailure]
    /\ pc' = [pc EXCEPT ![r] = "idle"]
    /\ UNCHANGED <<deniedBefore, kernelCalls, authReads, sess, op, required, authState, snap, role, reads, calls,
                   form, target, startRole, wrote, revalidated, invoices,
                   pureVars>>

\* return session?.user?.role ?? 'viewer'
GetCurrentUserRoleReturn(r) ==
    /\ pc[r] = "session"
    /\ IF op[r] = "getCurrentUserRole"
       THEN /\ outcome' = [outcome EXCEPT ![r] = Returned(ResolveRole(snap[r]))]
            /\ pc' = [pc EXCEPT ![r] = "idle"]
            /\ role' = role
       ELSE /\ role' = [role EXCEPT ![r] = ResolveRole(snap[r])]
            /\ pc' = [pc EXCEPT ![r] = "check"]
            /\ outcome' = outcome
    /\ UNCHANGED <<deniedBefore, kernelCalls, authReads, sess, op, required, authState, snap, reads, calls, form, target,
                   startRole, wrote, revalidated, invoices, pureVars>>

\* the check returning the required role in place of the resolved one
RequireRoleCheck_ReturnsRequired(r) ==
    /\ pc[r] = "check"
    /\ outcome' = [outcome EXCEPT ![r] =
                      IF ~isRoleAtLeast(role[r], required[r])
                      THEN Forbidden
                      ELSE Returned(required[r])]
    /\ deniedBefore' = [deniedBefore EXCEPT ![r] =
                           @ \/ ~isRoleAtLeast(role[r], required[r])]
    /\ pc' = [pc EXCEPT ![r] = "idle"]
    /\ UNCHANGED <<kernelCalls, authReads, sess, op, required, authState, snap, role, reads, calls,
                   form, target, startRole, wrote, revalidated, invoices,
                   pureVars>>

\* the returned role read off the session anew after the comparison
RequireRoleCheck_ReReads(r) ==
    /\ pc[r] = "check"
    /\ outcome' = [outcome EXCEPT ![r] =
                      IF ~isRoleAtLeast(role[r], required[r])
                      THEN Forbidden
                      ELSE Returned(ResolveRole(sess[r]))]
    /\ deniedBefore' = [deniedBefore EXCEPT ![r] =
                           @ \/ ~isRoleAtLeast(role[r], required[r])]
    /\ pc' = [pc EXCEPT ![r] = "idle"]
    /\ UNCHANGED <<kernelCalls, authReads, sess, op, required, authState, snap, role, reads, calls, form,
                   target, startRole, wrote, revalidated, invoices, pureVars>>

\* a denial remembered: once denied, the request is denied again
RequireRoleCheck_RemembersDenial(r) ==
    /\ pc[r] = "check"
    /\ outcome' = [outcome EXCEPT ![r] =
                      IF deniedBefore[r] \/ ~isRoleAtLeast(role[r], required[r])
                      THEN Forbidden
                      ELSE Returned(role[r])]
    /\ deniedBefore' = [deniedBefore EXCEPT ![r] =
                           @ \/ ~isRoleAtLeast(role[r], required[r])]
    /\ pc' = [pc EXCEPT ![r] = "idle"]
    /\ UNCHANGED <<kernelCalls, authReads, sess, op, required, authState, snap, role, reads, calls, form,
                   target, startRole, wrote, revalidated, invoices, pureVars>>

\* a caller without a session told apart from an under-privileged one
RequireRoleCheck_Unauthenticated(r) ==
    /\ pc[r] = "check"
    /\ outcome' = [outcome EXCEPT ![r] =
                      IF ~snap[r].exists
                      THEN [kind |-> "response", role |-> Undefined,
                            status |-> 401, body |-> "Unauthorized"]
                      ELSE IF ~isRoleAtLeast(role[r], required[r])
                      THEN Forbidden
                      ELSE Returned(role[r])]
    /\ deniedBefore' = [deniedBefore EXCEPT ![r] =
                           @ \/ ~isRoleAtLeast(role[r], required[r])]
    /\ pc' = [pc EXCEPT ![r] = "idle"]
    /\ UNCHANGED <<kernelCalls, authReads, sess, op, required, authState, snap, role, reads, calls, form,
                   target, startRole, wrote, revalidated, invoices, pureVars>>

\* if (!isRoleAtLeast(role, required)) throw ...; return role
RequireRoleCheck(r) ==
    /\ pc[r] = "check"
    /\ outcome' = [outcome EXCEPT ![r] =
                      IF ~isRoleAtLeast(role[r], required[r])
                      THEN Forbidden
                      ELSE Returned(role[r])]
    /\ deniedBefore' = [deniedBefore EXCEPT ![r] =
                           @ \/ ~isRoleAtLeast(role[r], required[r])]
    /\ pc' = [pc EXCEPT ![r] = "idle"]
    /\ UNCHANGED <<kernelCalls, authReads, sess, op, required, authState, snap, role, reads, calls, form,
                   target, startRole, wrote, revalidated, invoices, pureVars>>

\* the auth subsystem signs the caller in or out between any two steps
SessionChange(r, s) ==
    /\ s # sess[r]
    /\ sess' = [sess EXCEPT ![r] = s]
    /\ UNCHANGED <<deniedBefore, kernelCalls, authReads, pc, op, required, authState, snap, role, outcome, reads, calls, form,
                   target, startRole, wrote, revalidated, invoices, pureVars>>

(***************************************************************************)
(* actions: createInvoice, updateInvoice, deleteInvoice                    *)
(***************************************************************************)
MissingFields == "Missing Fields. Failed to create invoice"
DatabaseError == "Database Error: Failed to create invoice."
InvoicesPath == "/dashboard/invoices"

\* createInvoice going on to the write whatever safeParse said
CallCreateInvoice_IgnoresValidation(r, f) ==
    /\ Enter(r, "createInvoice")
    /\ f.customerId # Null
    /\ pc' = [pc EXCEPT ![r] = "create"]
    /\ form' = [form EXCEPT ![r] = f]
    /\ outcome' = [outcome EXCEPT ![r] = NoOutcome]
    /\ required' = [required EXCEPT ![r] = "viewer"]
    /\ target' = [target EXCEPT ![r] = 1]
    /\ UNCHANGED <<deniedBefore, kernelCalls, authReads, sess, invoices, pureVars>>

\* safeParse of the form; on failure the field errors are returned at once
CallCreateInvoice(r, f) ==
    /\ Enter(r, "createInvoice")
    /\ IF ~ParseSuccess(f)
       THEN /\ pc' = pc
            /\ form' = [form EXCEPT ![r] = NoForm]
            /\ outcome' = [outcome EXCEPT ![r] = Ended("errors", MissingFields)]
       ELSE /\ pc' = [pc EXCEPT ![r] = "create"]
            /\ form' = [form EXCEPT ![r] = f]
            /\ outcome' = [outcome EXCEPT ![r] = NoOutcome]
    /\ required' = [required EXCEPT ![r] = "viewer"]
    /\ target' = [target EXCEPT ![r] = 1]
    /\ UNCHANGED <<deniedBefore, kernelCalls, authReads, sess, invoices, pureVars>>

\* await prisma.invoices.create({ data }) inserts the row under a fresh id
PrismaInvoicesCreate(r) ==
    /\ pc[r] = "create"
    /\ ForeignKeyHolds(form[r].customerId)
    /\ \E id \in InvoiceIds :
          /\ ~Present(id)
          /\ invoices' = [invoices EXCEPT ![id] = InvoiceRow(form[r])]
    /\ wrote' = [wrote EXCEPT ![r] = TRUE]
    /\ pc' = [pc EXCEPT ![r] = "written"]
    /\ UNCHANGED <<deniedBefore, kernelCalls, authReads, sess, op, required, authState, snap, role, outcome, reads, calls,
                   form, target, startRole, revalidated, pureVars>>

\* the create throws (the customer_id is refused, or the database fails);
\* catch (error) returns the database error message
PrismaInvoicesCreateFail(r) ==
    /\ pc[r] = "create"
    /\ outcome' = [outcome EXCEPT ![r] = Ended("message", DatabaseError)]
    /\ pc' = [pc EXCEPT ![r] = "idle"]
    /\ UNCHANGED <<deniedBefore, kernelCalls, authReads, sess, op, required, authState, snap, role, reads, calls, form,
                   target, startRole, wrote, revalidated, invoices, pureVars>>

CallUpdateInvoice(r, id, f) ==
    /\ Enter(r, "updateInvoice")
    /\ form' = [form EXCEPT ![r] = f]
    /\ target' = [target EXCEPT ![r] = id]
    /\ IF ~ParseSuccess(f)
       THEN /\ pc' = pc
            /\ outcome' = [outcome EXCEPT ![r] = Ended("errors", MissingFields)]
       ELSE /\ pc' = [pc EXCEPT ![r] = "update"]
            /\ form' = [form EXCEPT ![r] = f]
            /\ outcome' = [outcome EXCEPT ![r] = NoOutcome]
    /\ required' = [required EXCEPT ![r] = "viewer"]
    /\ UNCHANGED <<deniedBefore, kernelCalls, authReads, sess, invoices, pureVars>>

\* await prisma.invoices.update({ where: { id }, data })
PrismaInvoicesUpdate(r) ==
    /\ pc[r] = "update"
    /\ Present(target[r])
    /\ ForeignKeyHolds(form[r].customerId)
    /\ invoices' = [invoices EXCEPT ![target[r]] = InvoiceRow(form[r])]
    /\ wrote' = [wrote EXCEPT ![r] = TRUE]
    /\ pc' = [pc EXCEPT ![r] = "written"]
    /\ UNCHANGED <<deniedBefore, kernelCalls, authReads, sess, op, required, authState, snap, role, outcome, reads, calls,
                   form, target, startRole, revalidated, pureVars>>

\* the catch of updateInvoice falling through to revalidatePath
PrismaInvoicesUpdateFail_Revalidates(r) ==
    /\ pc[r] = "update"
    /\ outcome' = [outcome EXCEPT ![r] = Ended("message", DatabaseError)]
    /\ revalidated' = [revalidated EXCEPT ![r] = TRUE]
    /\ pc' = [pc EXCEPT ![r] = "idle"]
    /\ UNCHANGED <<deniedBefore, kernelCalls, authReads, sess, op, required, authState, snap, role, reads, calls, form,
                   target, startRole, wrote, invoices, pureVars>>

\* the update throws (no such row, the customer_id is refused, or the
\* database fails); catch (error) returns the database error message
PrismaInvoicesUpdateFail(r) ==
    /\ pc[r] = "update"
    /\ outcome' = [outcome EXCEPT ![r] = Ended("message", DatabaseError)]
    /\ pc' = [pc EXCEPT ![r] = "idle"]
    /\ UNCHANGED <<deniedBefore, kernelCalls, authReads, sess, op, required, authState, snap, role, reads, calls, form,
                   target, startRole, wrote, revalidated, invoices, pureVars>>

\* revalidatePath('/dashboard/invoices'); redirect('/dashboard/invoices')
RevalidateAndRedirect(r) ==
    /\ pc[r] = "written"
    /\ op[r] \in {"createInvoice", "updateInvoice"}
    /\ revalidated' = [revalidated EXCEPT ![r] = TRUE]
    /\ outcome' = [outcome EXCEPT ![r] = Ended("redirect", InvoicesPath)]
    /\ pc' = [pc EXCEPT ![r] = "idle"]
    /\ UNCHANGED <<deniedBefore, kernelCalls, authReads, sess, op, required, authState, snap, role, reads, calls, form,
                   target, startRole, wrote, invoices, pureVars>>

CallDeleteInvoice(r, id) ==
    /\ Enter(r, "deleteInvoice")
    /\ outcome' = [outcome EXCEPT ![r] = NoOutcome]
    /\ target' = [target EXCEPT ![r] = id]
    /\ required' = [required EXCEPT ![r] = "viewer"]
    /\ form' = [form EXCEPT ![r] = NoForm]
    /\ pc' = [pc EXCEPT ![r] = "delete"]
    /\ UNCHANGED <<deniedBefore, kernelCalls, authReads, sess, invoices, pureVars>>

\* await prisma.invoices.delete({ where: { id } })
PrismaInvoicesDelete(r) ==
    /\ pc[r] = "delete"
    /\ Present(target[r])
    /\ invoices' = [invoices EXCEPT ![target[r]] = NoInvoice]
    /\ wrote' = [wrote EXCEPT ![r] = TRUE]
    /\ pc' = [pc EXCEPT ![r] = "written"]
    /\ UNCHANGED <<deniedBefore, kernelCalls, authReads, sess, op, required, authState, snap, role, outcome, reads, calls,
                   form, target, startRole, revalidated, pureVars>>

\* the delete throws (no such row, or the database fails); deleteInvoice has
\* no catch, the rejection reaches the caller
PrismaInvoicesDeleteFail(r) ==
    /\ pc[r] = "delete"
    /\ outcome' = [outcome EXCEPT ![r] = Ended("dbError", "")]
    /\ pc' = [pc EXCEPT ![r] = "idle"]
    /\ UNCHANGED <<deniedBefore, kernelCalls, authReads, sess, op, required, authState, snap, role, reads, calls, form,
                   target, startRole, wrote, revalidated, invoices, pureVars>>

\* revalidatePath('/dashboard/invoices') ends deleteInvoice
RevalidateAfterDelete(r) ==
    /\ pc[r] = "written"
    /\ op[r] = "deleteInvoice"
    /\ revalidated' = [revalidated EXCEPT ![r] = TRUE]
    /\ outcome' = [outcome EXCEPT ![r] = Ended("done", "")]
    /\ pc' = [pc EXCEPT ![r] = "idle"]
    /\ UNCHANGED <<deniedBefore, kernelCalls, authReads, sess, op, required, authState, snap, role, reads, calls, form,
                   target, startRole, wrote, invoices, pureVars>>

(***************************************************************************)
(* actions: createCustomer, updateCustomer, deleteCustomer                 *)
(***************************************************************************)
CustomerMissingFieldsCreate == "Missing Fields. Failed to create customer."
CustomerMissingFieldsUpdate == "Missing Fields. Failed to update customer."
CustomerErrorCreate == "Database Error: Failed to create customer."
CustomerErrorUpdate == "Database Error: Failed to update customer."
CustomersPath == "/dashboard/customers"

\* what the invoice and customer actions share on entry
EnterAction(r, f) ==
    /\ Enter(r, f)
    /\ required' = [required EXCEPT ![r] = "viewer"]
    /\ form' = [form EXCEPT ![r] = NoForm]
    /\ target' = [target EXCEPT ![r] = 1]
    /\ removed' = [removed EXCEPT ![r] = 0]
    /\ UNCHANGED <<deniedBefore, kernelCalls, authReads, sess, invoices,
                   customers, foreignKey, nonDbVars>>

\* an action of a request moves on without touching a table
CustomerLocalsOnly ==
    UNCHANGED <<deniedBefore, kernelCalls, authReads, sess, op, required,
                authState, snap, role, reads, calls, form, target, startRole,
                invoices, customers, foreignKey, custForm, custTarget,
                removed, nonDbVars>>

\* a prisma statement of a customer action took effect
CustomerWritten(r) ==
    /\ wrote' = [wrote EXCEPT ![r] = TRUE]
    /\ pc' = [pc EXCEPT ![r] = "writtenCustomer"]
    /\ UNCHANGED <<deniedBefore, kernelCalls, authReads, sess, op, required,
                   authState, snap, role, outcome, reads, calls, form, target,
                   startRole, revalidated, foreignKey, custForm, custTarget,
                   nonDbVars>>

CallCreateCustomer(r, cf) ==
    /\ EnterAction(r, "createCustomer")
    /\ custTarget' = [custTarget EXCEPT ![r] = "c1"]
    /\ IF ~CustomerParseSuccess(cf)
       THEN /\ pc' = pc
            /\ custForm' = [custForm EXCEPT ![r] = NoCustForm]
            /\ outcome' = [outcome EXCEPT ![r] =
                              Ended("errors", CustomerMissingFieldsCreate)]
       ELSE /\ pc' = [pc EXCEPT ![r] = "createCustomer"]
            /\ custForm' = [custForm EXCEPT ![r] = cf]
            /\ outcome' = [outcome EXCEPT ![r] = NoOutcome]

\* await prisma.customers.create({ data }) inserts the row under a fresh id
PrismaCustomersCreate(r) ==
    /\ pc[r] = "createCustomer"
    /\ \E id \in CustomerIds :
          /\ ~CustomerPresent(id)
          /\ customers' = [customers EXCEPT ![id] = CustomerRow(custForm[r])]
    /\ UNCHANGED <<invoices, removed>>
    /\ CustomerWritten(r)

\* the create throws; catch (error) returns the database error message
PrismaCustomersCreateFail(r) ==
    /\ pc[r] = "createCustomer"
    /\ outcome' = [outcome EXCEPT ![r] = Ended("message", CustomerErrorCreate)]
    /\ pc' = [pc EXCEPT ![r] = "idle"]
    /\ UNCHANGED <<wrote, revalidated>>
    /\ CustomerLocalsOnly

CallUpdateCustomer(r, id, cf) ==
    /\ EnterAction(r, "updateCustomer")
    /\ custTarget' = [custTarget EXCEPT ![r] = id]
    /\ IF ~CustomerParseSuccess(cf)
       THEN /\ pc' = pc
            /\ custForm' = [custForm EXCEPT ![r] = NoCustForm]
            /\ outcome' = [outcome EXCEPT ![r] =
                              Ended("errors", CustomerMissingFieldsUpdate)]
       ELSE /\ pc' = [pc EXCEPT ![r] = "updateCustomer"]
            /\ custForm' = [custForm EXCEPT ![r] = cf]
            /\ outcome' = [outcome EXCEPT ![r] = NoOutcome]

\* await prisma.customers.update({ where: { id }, data: { name, email } })
PrismaCustomersUpdate(r) ==
    /\ pc[r] = "updateCustomer"
    /\ \E id \in {custTarget[r]} :
          /\ CustomerPresent(id)
          /\ customers' = [customers EXCEPT
                              ![id].name = custForm[r].name,
                              ![id].email = custForm[r].email]
    /\ UNCHANGED <<invoices, removed>>
    /\ CustomerWritten(r)

\* the update throws (no such row, or the database fails)
PrismaCustomersUpdateFail(r) ==
    /\ pc[r] = "updateCustomer"
    /\ outcome' = [outcome EXCEPT ![r] = Ended("message", CustomerErrorUpdate)]
    /\ pc' = [pc EXCEPT ![r] = "idle"]
    /\ UNCHANGED <<wrote, revalidated>>
    /\ CustomerLocalsOnly

\* revalidatePath('/dashboard/customers'); redirect('/dashboard/customers')
RevalidateAndRedirectCustomers(r) ==
    /\ pc[r] = "writtenCustomer"
    /\ op[r] \in {"createCustomer", "updateCustomer"}
    /\ revalidated' = [revalidated EXCEPT ![r] = TRUE]
    /\ outcome' = [outcome EXCEPT ![r] = Ended("redirect", CustomersPath)]
    /\ pc' = [pc EXCEPT ![r] = "idle"]
    /\ UNCHANGED wrote
    /\ CustomerLocalsOnly

\* deleteCustomer builds the two statements and awaits the transaction
CallDeleteCustomer(r, id) ==
    /\ EnterAction(r, "deleteCustomer")
    /\ custTarget' = [custTarget EXCEPT ![r] = id]
    /\ custForm' = [custForm EXCEPT ![r] = NoCustForm]
    /\ outcome' = [outcome EXCEPT ![r] = NoOutcome]
    /\ pc' = [pc EXCEPT ![r] = "deleteCustomer"]

\* the transaction leaving the first statement's effect behind: the
\* invoices go, the customer stays
PrismaTransaction_InvoicesOnly(r) ==
    /\ pc[r] = "deleteCustomer"
    /\ \E id \in {custTarget[r]} :
          /\ CustomerPresent(id)
          /\ invoices' = [i \in InvoiceIds |->
                            IF invoices[i].customer_id = id
                            THEN NoInvoice ELSE invoices[i]]
          /\ removed' = [removed EXCEPT ![r] = Cardinality(
                            {i \in InvoiceIds : invoices[i].customer_id = id})]
          /\ UNCHANGED customers
    /\ CustomerWritten(r)

\* await prisma.$transaction([deleteInvoices, deleteCustomerAccount]): the
\* invoices of the customer and the customer go in one step
PrismaTransaction(r) ==
    /\ pc[r] = "deleteCustomer"
    /\ \E id \in {custTarget[r]} :
          /\ CustomerPresent(id)
          /\ invoices' = [i \in InvoiceIds |->
                            IF invoices[i].customer_id = id
                            THEN NoInvoice ELSE invoices[i]]
          /\ removed' = [removed EXCEPT ![r] = Cardinality(
                            {i \in InvoiceIds : invoices[i].customer_id = id})]
          /\ customers' = [customers EXCEPT ![id] = NoCustomer]
    /\ CustomerWritten(r)

\* the transaction throws (no such customer, or the database fails) and is
\* rolled back; deleteCustomer has no catch, the rejection reaches the caller
PrismaTransactionFail(r) ==
    /\ pc[r] = "deleteCustomer"
    /\ outcome' = [outcome EXCEPT ![r] = Ended("dbError", "")]
    /\ pc' = [pc EXCEPT ![r] = "idle"]
    /\ UNCHANGED <<wrote, revalidated>>
    /\ CustomerLocalsOnly

\* revalidatePath('/dashboard/customers') ends deleteCustomer
RevalidateAfterDeleteCustomer(r) ==
    /\ pc[r] = "writtenCustomer"
    /\ op[r] = "deleteCustomer"
    /\ revalidated' = [revalidated EXCEPT ![r] = TRUE]
    /\ outcome' = [outcome EXCEPT ![r] = Ended("done", "")]
    /\ pc' = [pc EXCEPT ![r] = "idle"]
    /\ UNCHANGED wrote
    /\ CustomerLocalsOnly

(***************************************************************************)
(* Specification of the requests                                           *)
(***************************************************************************)
KernelStep(r) ==
    \/ CallGetCurrentUserRole(r)
    \/ \E req \in Roles : CallRequireRole(r, req)
    \/ AuthResolve(r)
    \/ AuthReject(r)
    \/ AuthRejectionPropagates(r)
    \/ GetCurrentUserRoleReturn(r)
    \/ RequireRoleCheck(r)

InvoiceStep(r) ==
    \/ \E f \in Forms : CallCreateInvoice(r, f)
    \/ PrismaInvoicesCreate(r)
    \/ PrismaInvoicesCreateFail(r)
    \/ \E id \in InvoiceIds, f \in Forms : CallUpdateInvoice(r, id, f)
    \/ PrismaInvoicesUpdate(r)
    \/ PrismaInvoicesUpdateFail(r)
    \/ RevalidateAndRedirect(r)
    \/ \E id \in InvoiceIds : CallDeleteInvoice(r, id)
    \/ PrismaInvoicesDelete(r)
    \/ PrismaInvoicesDeleteFail(r)
    \/ RevalidateAfterDelete(r)

Next ==
    \/ KernelStep(Client)
    \/ InvoiceStep(Client)
    \/ \E s \in Sessions : SessionChange(Client, s)

Spec == Init /\ [][Next]_vars

(***************************************************************************)
(* Specification of the database under the server actions: one request     *)
(* after another runs an invoice action or a customer action               *)
(***************************************************************************)
CustomerStep(r) ==
    \/ \E cf \in CustForms : CallCreateCustomer(r, cf)
    \/ PrismaCustomersCreate(r)
    \/ PrismaCustomersCreateFail(r)
    \/ \E id \in CustomerIds, cf \in CustForms : CallUpdateCustomer(r, id, cf)
    \/ PrismaCustomersUpdate(r)
    \/ PrismaCustomersUpdateFail(r)
    \/ RevalidateAndRedirectCustomers(r)
    \/ \E id \in CustomerIds : CallDeleteCustomer(r, id)
    \/ PrismaTransaction(r)
    \/ PrismaTransactionFail(r)
    \/ RevalidateAfterDeleteCustomer(r)

InitDbSpec ==
    /\ sess = [r \in Reqs |-> NoSession]
    /\ InitLocals
    /\ InitPredicates
    /\ visitor = NoSession
    /\ InitAuthz
    /\ env = [v \in EnvNames |-> "value"]
    /\ envResult = NotRun
    /\ customers = [id \in CustomerIds |->
                      IF id = "c1"
                      THEN [name |-> "Amy", email |-> "amy@burns.com",
                            image_url |-> DefaultImage]
                      ELSE NoCustomer]
    /\ foreignKey \in FkModes
    /\ custForm = [r \in Reqs |-> NoCustForm]
    /\ custTarget = [r \in Reqs |-> "c1"]
    /\ removed = [r \in Reqs |-> 0]
    /\ listing = [k \in RowKinds |-> 0]
    /\ InitPage
    /\ fetched = NoFetched
    /\ InitSeed
    /\ InitRest

NextDb ==
    \/ InvoiceStep(Client)
    \/ CustomerStep(Client)

SpecDb == InitDbSpec /\ [][NextDb]_vars

(***************************************************************************)
(* Specification of the invoice listing: over any content of the tables,   *)
(* the page asks for the number of pages and for one page of a query       *)
(***************************************************************************)
\* one rendering of the page makes each call once
CallFetchInvoicesPages(query) ==
    /\ ~pageCount.made
    /\ pageCount' = [made |-> TRUE, query |-> query,
                     pages |-> fetchInvoicesPages(listing, query)]
    /\ UNCHANGED <<nonPageVars, listing, pageRows>>

CallFetchFilteredInvoices(query, currentPage) ==
    /\ ~pageRows.made
    /\ pageRows' = [made |-> TRUE, query |-> query, page |-> currentPage,
                    rows |-> fetchFilteredInvoices(listing, query, currentPage)]
    /\ UNCHANGED <<nonPageVars, listing, pageCount>>

InitPageSpec ==
    /\ sess = [r \in Reqs |-> NoSession]
    /\ InitLocals
    /\ InitPredicates
    /\ visitor = NoSession
    /\ InitAuthz
    /\ env = [v \in EnvNames |-> "value"]
    /\ envResult = NotRun
    /\ InitDb
    /\ listing \in [RowKinds -> 0..MaxPerKind]
    /\ InitPage
    /\ fetched = NoFetched
    /\ InitSeed
    /\ InitRest

NextPage ==
    \/ \E query \in Queries : CallFetchInvoicesPages(query)
    \/ \E query \in Queries, currentPage \in PageNumbers :
          CallFetchFilteredInvoices(query, currentPage)

SpecPage == InitPageSpec /\ [][NextPage]_vars

(***************************************************************************)
(* Specification of reading an invoice back: the invoice actions run and   *)
(* the edit page calls fetchInvoiceById                                    *)
(***************************************************************************)
CallFetchInvoiceById(id) ==
    /\ fetched' = [made |-> TRUE, id |-> id,
                   result |-> fetchInvoiceById(invoices, id)]
    /\ UNCHANGED nonByIdVars

InitById ==
    /\ sess = [r \in Reqs |-> NoSession]
    /\ InitLocals
    /\ InitPure

NextById ==
    \/ InvoiceStep(Client)
    \/ \E id \in InvoiceIds : CallFetchInvoiceById(id)

SpecById == InitById /\ [][NextById]_vars

(***************************************************************************)
(* Specification of the seed script: main() runs, step by step, from the   *)
(* rows an earlier run or the application left in the tables               *)
(***************************************************************************)
\* node prisma/seed.js
RunSeed ==
    /\ seedPc.at \in {"idle", "complete", "exit"}
    /\ seedRuns < MaxSeedRuns
    /\ seedRuns' = seedRuns + 1
    /\ seedPc' = SeedAt("customers.deleteMany", 0)
    /\ UNCHANGED <<tblUsers, tblCustomers, tblInvoices, tblRevenue, foreignKey,
                   nonSeedVars>>

\* await prisma.customers.deleteMany({})
CustomersDeleteMany ==
    /\ seedPc.at = "customers.deleteMany"
    /\ \/ /\ foreignKey = "none"
          /\ tblCustomers' = {}
          /\ seedPc' = SeedAt("invoices.deleteMany", 0)
          /\ UNCHANGED tblInvoices
       \/ /\ foreignKey = "cascade"
          /\ tblCustomers' = {}
          /\ tblInvoices' = NotReferring(tblInvoices, tblCustomers)
          /\ seedPc' = SeedAt("invoices.deleteMany", 0)
       \/ /\ foreignKey = "restrict"
          /\ Referring(tblInvoices, tblCustomers) = <<>>
          /\ tblCustomers' = {}
          /\ seedPc' = SeedAt("invoices.deleteMany", 0)
          /\ UNCHANGED tblInvoices
       \/ /\ foreignKey = "restrict"
          /\ Referring(tblInvoices, tblCustomers) # <<>>
          /\ seedPc' = SeedAt("exit", 0)
          /\ UNCHANGED <<tblCustomers, tblInvoices>>
    /\ UNCHANGED <<tblUsers, tblRevenue, seedRuns, foreignKey, nonSeedVars>>

\* await prisma.invoices.deleteMany({}) leaving the rows where they are
InvoicesDeleteMany_KeepsRows ==
    /\ seedPc.at = "invoices.deleteMany"
    /\ seedPc' = SeedAt("revenue.deleteMany", 0)
    /\ UNCHANGED <<tblUsers, tblCustomers, tblInvoices, tblRevenue, seedRuns,
                   foreignKey, nonSeedVars>>

\* await prisma.invoices.deleteMany({})
InvoicesDeleteMany ==
    /\ seedPc.at = "invoices.deleteMany"
    /\ tblInvoices' = <<>>
    /\ seedPc' = SeedAt("revenue.deleteMany", 0)
    /\ UNCHANGED <<tblUsers, tblCustomers, tblRevenue, seedRuns, foreignKey,
                   nonSeedVars>>

\* await prisma.revenue.deleteMany({})
RevenueDeleteMany ==
    /\ seedPc.at = "revenue.deleteMany"
    /\ tblRevenue' = {}
    /\ seedPc' = SeedAt("users.deleteMany", 0)
    /\ UNCHANGED <<tblUsers, tblCustomers, tblInvoices, seedRuns, foreignKey,
                   nonSeedVars>>

\* await prisma.users.deleteMany({})
UsersDeleteMany ==
    /\ seedPc.at = "users.deleteMany"
    /\ tblUsers' = {}
    /\ seedPc' = SeedAt("users.upsert", 1)
    /\ UNCHANGED <<tblCustomers, tblInvoices, tblRevenue, seedRuns, foreignKey,
                   nonSeedVars>>

\* the position after the i-th pass of a loop over data
AfterPass(at, i, data, next) ==
    IF i < Len(data) THEN SeedAt(at, i + 1) ELSE next

\* for (const u of users) await prisma.users.upsert({ where: { id }, update: {}, create })
UsersUpsert ==
    /\ seedPc.at = "users.upsert"
    /\ tblUsers' = tblUsers \cup {seed_users[seedPc.i]}
    /\ seedPc' = AfterPass("users.upsert", seedPc.i, seed_users,
                           SeedAt("customers.upsert", 1))
    /\ UNCHANGED <<tblCustomers, tblInvoices, tblRevenue, seedRuns, foreignKey,
                   nonSeedVars>>

\* for (const c of customers) await prisma.customers.upsert({ where: { id }, update: {}, create: c })
CustomersUpsert ==
    /\ seedPc.at = "customers.upsert"
    /\ tblCustomers' = tblCustomers \cup {seed_customers[seedPc.i]}
    /\ seedPc' = AfterPass("customers.upsert", seedPc.i, seed_customers,
                           SeedAt("invoices.create", 1))
    /\ UNCHANGED <<tblUsers, tblInvoices, tblRevenue, seedRuns, foreignKey,
                   nonSeedVars>>

\* for (const inv of invoices) await prisma.invoices.create({ data })
InvoicesCreate ==
    /\ seedPc.at = "invoices.create"
    /\ IF foreignKey = "none" \/ seed_invoices[seedPc.i].customer_id \in tblCustomers
       THEN /\ tblInvoices' = Append(tblInvoices, seed_invoices[seedPc.i])
            /\ seedPc' = AfterPass("invoices.create", seedPc.i, seed_invoices,
                                   SeedAt("revenue.upsert", 1))
       ELSE /\ seedPc' = SeedAt("exit", 0)
            /\ UNCHANGED tblInvoices
    /\ UNCHANGED <<tblUsers, tblCustomers, tblRevenue, seedRuns, foreignKey,
                   nonSeedVars>>

\* for (const r of revenue) await prisma.revenue.upsert({ where: { month }, update: {}, create: r })
RevenueUpsert ==
    /\ seedPc.at = "revenue.upsert"
    /\ tblRevenue' =
          IF \E row \in tblRevenue : row.month = seed_revenue[seedPc.i].month
          THEN tblRevenue
          ELSE tblRevenue \cup {seed_revenue[seedPc.i]}
    /\ seedPc' = AfterPass("revenue.upsert", seedPc.i, seed_revenue,
                           SeedAt("complete", 0))
    /\ UNCHANGED <<tblUsers, tblCustomers, tblInvoices, seedRuns, foreignKey,
                   nonSeedVars>>

\* an awaited query rejects: main() rejects, .catch logs and calls process.exit(1)
SeedQueryRejects ==
    /\ seedPc.at \notin {"idle", "complete", "exit"}
    /\ seedPc' = SeedAt("exit", 0)
    /\ UNCHANGED <<tblUsers, tblCustomers, tblInvoices, tblRevenue, seedRuns,
                   foreignKey, nonSeedVars>>

InitSeedSpec ==
    /\ sess = [r \in Reqs |-> NoSession]
    /\ InitLocals
    /\ InitPredicates
    /\ visitor = NoSession
    /\ InitAuthz
    /\ env = [v \in EnvNames |-> "value"]
    /\ envResult = NotRun
    /\ customers = [c \in CustomerIds |-> NoCustomer]
    /\ custForm = [r \in Reqs |-> NoCustForm]
    /\ custTarget = [r \in Reqs |-> "c1"]
    /\ removed = [r \in Reqs |-> 0]
    /\ listing = [k \in RowKinds |-> 0]
    /\ InitPage
    /\ fetched = NoFetched
    /\ foreignKey \in FkModes
    /\ tblUsers \in {{}, {OtherUser}, {seed_users[1], OtherUser}}
    /\ tblCustomers \in {{}, {CustomerAt(0), OtherCustomer}}
    /\ tblInvoices \in LeftInvoices
    /\ foreignKey # "none" => Referring(tblInvoices, tblCustomers) = tblInvoices
    /\ tblRevenue \in LeftRevenue
    /\ seedPc = SeedIdle
    /\ seedRuns = 0
    /\ InitRest

NextSeed ==
    \/ RunSeed
    \/ CustomersDeleteMany
    \/ InvoicesDeleteMany
    \/ RevenueDeleteMany
    \/ UsersDeleteMany
    \/ UsersUpsert
    \/ CustomersUpsert
    \/ InvoicesCreate
    \/ RevenueUpsert
    \/ SeedQueryRejects

SpecSeed == InitSeedSpec /\ [][NextSeed]_vars

(***************************************************************************)
(* Specification of a browser session: sign-in issues the token, every     *)
(* later request runs the jwt and the session callback and resolves the    *)
(* role                                                                    *)
(***************************************************************************)
\* the role column of the users row changes in the database
UserRecordChange(r) ==
    /\ userRecord # r
    /\ userRecord' = r
    /\ UNCHANGED <<token, signedRole, issued, resolved, jwtCalls, nonTokenVars>>

\* signIn: authorize returns the users row, the jwt callback runs with user
SignIn ==
    /\ jwtCalls < MaxCalls
    /\ jwtCalls' = jwtCalls + 1
    /\ token' = jwt([live |-> TRUE, role |-> Undefined], SignedInUser(userRecord))
    /\ signedRole' = userRecord
    /\ issued' = NoSession
    /\ resolved' = NotResolved
    /\ UNCHANGED <<userRecord, nonTokenVars>>

\* a later request: auth() runs the jwt callback without user
JwtCallback ==
    /\ token.live
    /\ jwtCalls < MaxCalls
    /\ jwtCalls' = jwtCalls + 1
    /\ token' = jwt(token, NoUser)
    /\ UNCHANGED <<userRecord, signedRole, issued, resolved, nonTokenVars>>

\* auth() runs the session callback on a session built from the token
SessionCallback(hasUser) ==
    /\ token.live
    /\ issued' = session(FreshSession(hasUser), token)
    /\ issued' # issued
    /\ resolved' = NotResolved
    /\ UNCHANGED <<userRecord, token, signedRole, jwtCalls, nonTokenVars>>

\* getCurrentUserRole on the session auth() returned
ResolveOnSession ==
    /\ issued.exists
    /\ ~resolved.made
    /\ resolved' = [made |-> TRUE, hasUser |-> issued.hasUser,
                    role |-> ResolveRole(issued)]
    /\ UNCHANGED <<userRecord, token, signedRole, issued, jwtCalls, nonTokenVars>>

\* signOut: the token is dropped
SignOut ==
    /\ token.live
    /\ token' = NoToken
    /\ issued' = NoSession
    /\ resolved' = NotResolved
    /\ UNCHANGED <<userRecord, signedRole, jwtCalls, nonTokenVars>>

InitTokenSpec ==
    /\ sess = [r \in Reqs |-> NoSession]
    /\ InitLocals
    /\ InitPure

NextToken ==
    \/ \E r \in UserRoles : UserRecordChange(r)
    \/ SignIn
    \/ JwtCallback
    \/ \E hasUser \in BOOLEAN : SessionCallback(hasUser)
    \/ ResolveOnSession
    \/ SignOut

SpecToken == InitTokenSpec /\ [][NextToken]_vars

(***************************************************************************)
(* Specification of the two copies of the RBAC logic: the same call is     *)
(* made to both                                                            *)
(***************************************************************************)
CallBothCopies(fn, s, r, req) ==
    /\ compared < MaxCalls
    /\ compared' = compared + 1
    /\ both' = [made |-> TRUE, fn |-> fn, session |-> s, role |-> r,
                required |-> req,
                rbac |-> OfRbac(fn, s, r, req),
                standalone |-> OfStandalone(fn, s, r, req)]
    /\ UNCHANGED nonCopyVars

InitCopiesSpec ==
    /\ sess = [r \in Reqs |-> NoSession]
    /\ InitLocals
    /\ InitPure

NextCopies ==
    \E fn \in Exported, s \in Sessions, r \in Roles, req \in Roles :
        CallBothCopies(fn, s, r, req)

SpecCopies == InitCopiesSpec /\ [][NextCopies]_vars

(***************************************************************************)
(* Specification of the dashboard cards: fetchCardData runs its four       *)
(* queries while the invoice actions and deleteCustomer run                *)
(***************************************************************************)
\* fetchCardData(): the four queries are started
CallFetchCardData ==
    /\ cardPc = "idle"
    /\ cardPc' = "querying"
    /\ cardPending' = CardQueries
    /\ UNCHANGED <<cardRead, card, nonCardVars>>

\* one of the four queries runs on the tables as they are now
CardQuery(q) ==
    /\ cardPc = "querying"
    /\ q \in cardPending
    /\ cardPending' = cardPending \ {q}
    /\ cardRead' =
          CASE q = "invoices.count" ->
                 [cardRead EXCEPT !.numberOfInvoices = invoices_count(invoices)]
            [] q = "customers.count" ->
                 [cardRead EXCEPT !.numberOfCustomers = customers_count(customers)]
            [] q = "aggregate.paid" ->
                 [cardRead EXCEPT !.paidAgg = aggregate(invoices, "paid")]
            [] q = "aggregate.pending" ->
                 [cardRead EXCEPT !.pendingAgg = aggregate(invoices, "pending")]
    /\ UNCHANGED <<cardPc, card, nonCardVars>>

\* Promise.all resolved: the totals are taken with ?? 0 and the object returned
CardReturn ==
    /\ cardPc = "querying"
    /\ cardPending = {}
    /\ cardPc' = "returned"
    /\ card' = CardOf(cardRead)
    /\ UNCHANGED <<cardPending, cardRead, nonCardVars>>

\* a query rejects: catch, throw new Error('Failed to fetch card data.')
CardQueryRejects ==
    /\ cardPc = "querying"
    /\ cardPending # {}
    /\ cardPc' = "failed"
    /\ UNCHANGED <<cardPending, cardRead, card, nonCardVars>>

InitCardSpec ==
    /\ sess = [r \in Reqs |-> NoSession]
    /\ InitLocals
    /\ InitPure

NextCard ==
    \/ InvoiceStep(Client)
    \/ \E id \in CustomerIds : CallDeleteCustomer(Client, id)
    \/ PrismaTransaction(Client)
    \/ PrismaTransactionFail(Client)
    \/ RevalidateAfterDeleteCustomer(Client)
    \/ CallFetchCardData
    \/ \E q \in CardQueries : CardQuery(q)
    \/ CardReturn
    \/ CardQueryRejects

SpecCard == InitCardSpec /\ [][NextCard]_vars

(***************************************************************************)
(* Specification of concurrent requests: every request has a session of    *)
(* its own, fixed while the request runs, and runs getCurrentUserRole /   *)
(* requireRole, the steps of the requests interleaving at their awaits     *)
(***************************************************************************)
InitConc ==
    /\ sess \in [Reqs -> Sessions]
    /\ InitLocals
    /\ InitPure

NextConc == \E r \in Reqs : KernelStep(r)

SpecConc == InitConc /\ [][NextConc]_vars

(***************************************************************************)
(* Specification of the pure predicates: each step applies one predicate   *)
(* of rbac-core to drawn roles and records what it returned                *)
(***************************************************************************)
Record(f, k, v) == [p \in DOMAIN f \cup {k} |-> IF p = k THEN v ELSE f[p]]

EvalIsRoleAtLeast(a, b) ==
    /\ atLeastRes' = Record(atLeastRes, <<a, b>>, isRoleAtLeast(a, b))
    /\ UNCHANGED <<kernelVars, canRes, authzVars, envVars, moreVars>>

EvalCanCreateInvoice(a) ==
    /\ canRes' = Record(canRes, <<"canCreateInvoice", a>>, canCreateInvoice(a))
    /\ UNCHANGED <<kernelVars, atLeastRes, authzVars, envVars, moreVars>>

EvalCanUpdateInvoice(a) ==
    /\ canRes' = Record(canRes, <<"canUpdateInvoice", a>>, canUpdateInvoice(a))
    /\ UNCHANGED <<kernelVars, atLeastRes, authzVars, envVars, moreVars>>

EvalCanDeleteInvoice(a) ==
    /\ canRes' = Record(canRes, <<"canDeleteInvoice", a>>, canDeleteInvoice(a))
    /\ UNCHANGED <<kernelVars, atLeastRes, authzVars, envVars, moreVars>>

InitPureSpec ==
    /\ sess = [r \in Reqs |-> NoSession]
    /\ InitLocals
    /\ InitPure

NextPure ==
    \/ \E a \in Roles, b \in Roles : EvalIsRoleAtLeast(a, b)
    \/ \E a \in Roles : EvalCanCreateInvoice(a)
    \/ \E a \in Roles : EvalCanUpdateInvoice(a)
    \/ \E a \in Roles : EvalCanDeleteInvoice(a)

SpecPure == InitPureSpec /\ [][NextPure]_vars

(***************************************************************************)
(* Specification of the middleware: a browser signs in and out and sends   *)
(* requests, each decided by the authorized callback                       *)
(***************************************************************************)
MiddlewareRequest(pathname) ==
    /\ authzReq' = [made |-> TRUE, auth |-> visitor, pathname |-> pathname]
    /\ authzDecision' = authorized(visitor, pathname)
    /\ UNCHANGED <<kernelVars, atLeastRes, canRes, visitor, envVars, moreVars>>

VisitorSessionChange(s) ==
    /\ s # visitor
    /\ visitor' = s
    /\ UNCHANGED <<kernelVars, atLeastRes, canRes, authzReq, authzDecision,
                   envVars, moreVars>>

InitAuthzSpec ==
    /\ sess = [r \in Reqs |-> NoSession]
    /\ InitLocals
    /\ InitPredicates
    /\ visitor \in Sessions
    /\ InitAuthz
    /\ env = [v \in EnvNames |-> "value"]
    /\ envResult = NotRun
    /\ InitMore

NextAuthz ==
    \/ \E pathname \in Pathnames : MiddlewareRequest(pathname)
    \/ \E s \in Sessions : VisitorSessionChange(s)

SpecAuthz == InitAuthzSpec /\ [][NextAuthz]_vars

(***************************************************************************)
(* Specification of startup: the server starts under any environment and   *)
(* validateEnv runs on import                                              *)
(***************************************************************************)
ValidateEnvOnImport ==
    /\ envResult = NotRun
    /\ envResult' = validateEnv(env)
    /\ UNCHANGED <<kernelVars, atLeastRes, canRes, authzVars, env, moreVars>>

InitEnvSpec ==
    /\ sess = [r \in Reqs |-> NoSession]
    /\ InitLocals
    /\ InitPredicates
    /\ visitor = NoSession
    /\ InitAuthz
    /\ env \in [EnvNames -> EnvValues]
    /\ envResult = NotRun
    /\ InitMore

NextEnv == ValidateEnvOnImport

SpecEnv == InitEnvSpec /\ [][NextEnv]_vars

(***************************************************************************)
(* Properties                                                              *)
(***************************************************************************)
\* the ranks as the specification states them
ClaimRank == [viewer |-> 1, editor |-> 2, admin |-> 3]

\* the last invocation of request r was of function f and has ended
Finished(r, f) == op[r] = f /\ pc[r] = "idle" /\ outcome[r].kind # "none"

\* the role an invoice action demands of its caller
Demanded(f) == IF f = "deleteInvoice" THEN "admin" ELSE "editor"

InvoiceActions == {"createInvoice", "updateInvoice", "deleteInvoice"}

\* C1: an invoice action started by a caller whose role ranks below the
\* role the action demands (editor for create and update, admin for delete)
\* never performs its prisma.invoices write.
C1_InsufficientRoleNeverWrites ==
    \A r \in Reqs :
        (op[r] \in InvoiceActions
           /\ ClaimRank[startRole[r]] < ClaimRank[Demanded(op[r])])
        => ~wrote[r]

\* C2: a requireRole invocation whose session read succeeded ends by
\* returning the resolved role when that role ranks at least as high as the
\* required one, and by throwing the 403 'Forbidden' response otherwise.
C2_RequireRoleReturnsOrForbids ==
    \A r \in Reqs :
        (Finished(r, "requireRole") /\ authState[r] = "resolved")
        => /\ role[r] \in Roles
           /\ IF ClaimRank[role[r]] >= ClaimRank[required[r]]
              THEN outcome[r] = [kind |-> "return", role |-> role[r],
                                 status |-> 0, body |-> ""]
              ELSE outcome[r] = [kind |-> "response", role |-> Undefined,
                                 status |-> 403, body |-> "Forbidden"]

C2_Witness ==
    \E r \in Reqs :
        /\ Finished(r, "requireRole")
        /\ authState[r] = "resolved"
        /\ role[r] = "editor"
        /\ required[r] = "admin"
        /\ outcome[r].status = 403

\* C3: a getCurrentUserRole invocation whose session read succeeded returns
\* 'viewer' when there is no session, no user or no role, and the role the
\* session carries otherwise; it does not throw.
C3_ResolvesSessionRoleOrViewer ==
    \A r \in Reqs :
        (Finished(r, "getCurrentUserRole") /\ authState[r] = "resolved")
        => /\ outcome[r].kind = "return"
           /\ outcome[r].role =
                 IF snap[r].exists /\ snap[r].hasUser
                       /\ snap[r].role \in Roles
                 THEN snap[r].role
                 ELSE "viewer"

C3_Witness ==
    \E r \in Reqs :
        /\ Finished(r, "getCurrentUserRole")
        /\ authState[r] = "resolved"
        /\ snap[r].exists
        /\ ~snap[r].hasUser
        /\ outcome[r].role = "viewer"

\* C4: when auth() rejects, the invocation of getCurrentUserRole or
\* requireRole resolves no role and ends with that rejection.
C4_AuthFailurePropagates ==
    \A r \in Reqs :
        authState[r] = "rejected"
        => /\ role[r] = Undefined
           /\ pc[r] \in {"rejected", "idle"}
           /\ pc[r] = "idle" =>
                 outcome[r] = [kind |-> "authError", role |-> Undefined,
                               status |-> 0, body |-> ""]

C4_Witness ==
    \E r \in Reqs :
        /\ Finished(r, "requireRole")
        /\ authState[r] = "rejected"

\* C5: every result of isRoleAtLeast(role, required) is true exactly when
\* rank(role) >= rank(required) under viewer=1, editor=2, admin=3.
C5_IsRoleAtLeastIsRankOrder ==
    \A p \in DOMAIN atLeastRes :
        atLeastRes[p] = (ClaimRank[p[1]] >= ClaimRank[p[2]])

C5_Witness ==
    /\ <<"viewer", "editor">> \in DOMAIN atLeastRes
    /\ <<"editor", "viewer">> \in DOMAIN atLeastRes
    /\ ~atLeastRes[<<"viewer", "editor">>]
    /\ atLeastRes[<<"editor", "viewer">>]

\* C6: every result of canCreateInvoice(role) and of canUpdateInvoice(role)
\* is true for editor and admin and false for viewer, equals the result of
\* isRoleAtLeast(role, 'editor'), and the two agree on every role.
C6_CreateAndUpdateGatedAtEditor ==
    \A a \in Roles :
        /\ \A f \in {"canCreateInvoice", "canUpdateInvoice"} :
              <<f, a>> \in DOMAIN canRes
              => /\ canRes[<<f, a>>] = (a \in {"editor", "admin"})
                 /\ <<a, "editor">> \in DOMAIN atLeastRes
                       => canRes[<<f, a>>] = atLeastRes[<<a, "editor">>]
        /\ ({<<"canCreateInvoice", a>>, <<"canUpdateInvoice", a>>}
               \subseteq DOMAIN canRes)
           => canRes[<<"canCreateInvoice", a>>]
                 = canRes[<<"canUpdateInvoice", a>>]

C6_Witness ==
    /\ {<<"canCreateInvoice", "viewer">>, <<"canUpdateInvoice", "viewer">>,
        <<"canCreateInvoice", "editor">>, <<"canUpdateInvoice", "editor">>}
          \subseteq DOMAIN canRes
    /\ <<"editor", "editor">> \in DOMAIN atLeastRes
    /\ canRes[<<"canCreateInvoice", "editor">>]
    /\ ~canRes[<<"canUpdateInvoice", "viewer">>]

\* C7: every result of canDeleteInvoice(role) is true for admin only and
\* equals the result of isRoleAtLeast(role, 'admin').
C7_DeleteGatedAtAdmin ==
    \A a \in Roles :
        <<"canDeleteInvoice", a>> \in DOMAIN canRes
        => /\ canRes[<<"canDeleteInvoice", a>>] = (a = "admin")
           /\ <<a, "admin">> \in DOMAIN atLeastRes
                 => canRes[<<"canDeleteInvoice", a>>]
                       = atLeastRes[<<a, "admin">>]

C7_Witness ==
    /\ {<<"canDeleteInvoice", a>> : a \in Roles} \subseteq DOMAIN canRes
    /\ <<"editor", "admin">> \in DOMAIN atLeastRes
    /\ canRes[<<"canDeleteInvoice", "admin">>]
    /\ ~canRes[<<"canDeleteInvoice", "editor">>]

\* C8: whenever canDeleteInvoice returned true for a role, canUpdateInvoice
\* returns true for it too, and for editor canUpdateInvoice returns true
\* while canDeleteInvoice returns false.
C8_DeleteStricterThanUpdate ==
    /\ \A a \in Roles :
          ({<<"canDeleteInvoice", a>>, <<"canUpdateInvoice", a>>}
              \subseteq DOMAIN canRes)
          => (canRes[<<"canDeleteInvoice", a>>]
                 => canRes[<<"canUpdateInvoice", a>>])
    /\ <<"canUpdateInvoice", "editor">> \in DOMAIN canRes
          => canRes[<<"canUpdateInvoice", "editor">>]
    /\ <<"canDeleteInvoice", "editor">> \in DOMAIN canRes
          => ~canRes[<<"canDeleteInvoice", "editor">>]

C8_Witness ==
    /\ {<<"canDeleteInvoice", "editor">>, <<"canUpdateInvoice", "editor">>,
        <<"canDeleteInvoice", "admin">>, <<"canUpdateInvoice", "admin">>}
          \subseteq DOMAIN canRes
    /\ canRes[<<"canUpdateInvoice", "editor">>]
    /\ ~canRes[<<"canDeleteInvoice", "editor">>]
    /\ canRes[<<"canDeleteInvoice", "admin">>]

\* C9: the results of isRoleAtLeast are transitive: when it returned true
\* for (a, b) and for (b, c), it returns true for (a, c).
C9_IsRoleAtLeastTransitive ==
    \A a \in Roles, b \in Roles, c \in Roles :
        ({<<a, b>>, <<b, c>>, <<a, c>>} \subseteq DOMAIN atLeastRes
            /\ atLeastRes[<<a, b>>] /\ atLeastRes[<<b, c>>])
        => atLeastRes[<<a, c>>]

C9_Witness ==
    /\ {<<"admin", "editor">>, <<"editor", "viewer">>, <<"admin", "viewer">>}
          \subseteq DOMAIN atLeastRes
    /\ atLeastRes[<<"admin", "editor">>]
    /\ atLeastRes[<<"editor", "viewer">>]
    /\ atLeastRes[<<"admin", "viewer">>]

\* C10: isRoleAtLeast is reflexive where requireRole applies it: an
\* invocation of requireRole(r) whose caller resolved to exactly r is never
\* denied, it returns r.
C10_ExactRoleNeverDenied ==
    \A r \in Reqs :
        (Finished(r, "requireRole") /\ authState[r] = "resolved"
            /\ role[r] = required[r])
        => /\ outcome[r].kind = "return"
           /\ outcome[r].role = required[r]

C10_Witness ==
    \E r \in Reqs :
        /\ Finished(r, "requireRole")
        /\ authState[r] = "resolved"
        /\ role[r] = "admin"
        /\ required[r] = "admin"
        /\ outcome[r].kind = "return"

\* C11: every role has a rank and no two distinct roles share one; of the
\* results of isRoleAtLeast for (a, b) and (b, a) at least one is true, and
\* both are true only when a = b.
C11_RankTotalInjectiveOrderTotal ==
    /\ Roles \subseteq DOMAIN roleRank
    /\ \A a \in Roles, b \in Roles : a # b => roleRank[a] # roleRank[b]
    /\ \A a \in Roles, b \in Roles :
          ({<<a, b>>, <<b, a>>} \subseteq DOMAIN atLeastRes)
          => /\ atLeastRes[<<a, b>>] \/ atLeastRes[<<b, a>>]
             /\ (atLeastRes[<<a, b>>] /\ atLeastRes[<<b, a>>]) => a = b

C11_Witness ==
    /\ {<<"editor", "admin">>, <<"admin", "editor">>, <<"admin", "admin">>}
          \subseteq DOMAIN atLeastRes
    /\ atLeastRes[<<"admin", "editor">>]
    /\ ~atLeastRes[<<"editor", "admin">>]
    /\ atLeastRes[<<"admin", "admin">>]

KernelFunctions == {"getCurrentUserRole", "requireRole"}

\* the invocations of the kernel functions that have not yet read the session
AwaitingAuth == {r \in Reqs : pc[r] = "auth"}

\* C12: every invocation of getCurrentUserRole or requireRole reads the
\* session provider exactly once: the reads served equal the invocations
\* started less those still waiting for their read, an invocation past its
\* await has read once, and the session it holds is the session the provider
\* had at that read.
C12_OneReadPerCall ==
    /\ [](authReads = kernelCalls - Cardinality(AwaitingAuth))
    /\ [](\A r \in Reqs :
             op[r] \in KernelFunctions
             => reads[r] = (IF pc[r] = "auth" THEN 0 ELSE 1))
    /\ [][\A r \in Reqs :
             (pc[r] = "auth" /\ pc'[r] = "session") => snap'[r] = sess[r]]_vars

C12_Witness ==
    /\ kernelCalls = 2
    /\ authReads = 2
    /\ \A r \in Reqs : pc[r] = "idle"

\* the role a session carries, viewer when it carries none
CarriedRole(s) ==
    IF s.exists /\ s.hasUser /\ s.role \in Roles THEN s.role ELSE "viewer"

\* C13: within one requireRole invocation the role compared and the role
\* returned are the one value taken from the single session read: a change
\* of the session after that read changes neither the role held, the
\* decision nor the returned role, and causes no second read.
C13_NoCheckUseGap ==
    /\ [](\A r \in Reqs :
             (op[r] = "requireRole" /\ authState[r] = "resolved"
                 /\ pc[r] \in {"check", "idle"})
             => /\ role[r] = CarriedRole(snap[r])
                /\ reads[r] = 1
                /\ pc[r] = "idle" =>
                      IF ClaimRank[role[r]] >= ClaimRank[required[r]]
                      THEN outcome[r].kind = "return"
                              /\ outcome[r].role = CarriedRole(snap[r])
                      ELSE outcome[r].kind = "response")
    /\ [][\A r \in Reqs :
             sess'[r] # sess[r]
             => /\ snap'[r] = snap[r]
                /\ role'[r] = role[r]
                /\ outcome'[r] = outcome[r]
                /\ reads'[r] = reads[r]]_vars

C13_Witness ==
    \E r \in Reqs :
        /\ Finished(r, "requireRole")
        /\ snap[r].role = "admin"
        /\ required[r] = "admin"
        /\ outcome[r].role = "admin"
        /\ ~sess[r].exists

\* C14: the outcome of a requireRole invocation is decided by the session
\* read in that invocation and the required role alone, whether or not an
\* earlier invocation of the request was denied; a denial ends the
\* invocation, it is not retried.
C14_MemorylessAcrossInvocations ==
    \A r \in Reqs :
        /\ (Finished(r, "requireRole") /\ authState[r] = "resolved")
           => (outcome[r].kind = "response")
                 = (ClaimRank[CarriedRole(snap[r])] < ClaimRank[required[r]])
        /\ (op[r] = "requireRole" /\ outcome[r].kind = "response")
           => (pc[r] = "idle" /\ reads[r] = 1 /\ deniedBefore[r])

C14_Witness ==
    \E r \in Reqs :
        /\ Finished(r, "requireRole")
        /\ deniedBefore[r]
        /\ outcome[r].kind = "return"
        /\ outcome[r].role = "editor"

\* C15: with requests of different sessions interleaving, a finished
\* invocation holds the session of its own request and its result is the
\* one that session and its required role give; a step of one request
\* leaves the session, the locals and the outcome of every other request
\* unchanged.
C15_RequestsDoNotInterfere ==
    /\ [](\A r \in Reqs :
             (op[r] \in KernelFunctions /\ pc[r] = "idle"
                 /\ authState[r] = "resolved")
             => /\ snap[r] = sess[r]
                /\ outcome[r] =
                      IF op[r] = "requireRole"
                            /\ ClaimRank[CarriedRole(sess[r])]
                                  < ClaimRank[required[r]]
                      THEN [kind |-> "response", role |-> Undefined,
                            status |-> 403, body |-> "Forbidden"]
                      ELSE [kind |-> "return",
                            role |-> CarriedRole(sess[r]),
                            status |-> 0, body |-> ""])
    /\ [][\A r \in Reqs, q \in Reqs :
             (r # q /\ pc'[r] # pc[r])
             => /\ sess'[q] = sess[q]
                /\ pc'[q] = pc[q]
                /\ required'[q] = required[q]
                /\ snap'[q] = snap[q]
                /\ role'[q] = role[q]
                /\ outcome'[q] = outcome[q]]_vars

C15_Witness ==
    \E r \in Reqs, q \in Reqs :
        /\ r # q
        /\ pc[r] = "check"
        /\ role[r] = "admin"
        /\ pc[q] = "session"
        /\ ~snap[q].exists
        /\ op[q] = "requireRole"

\* the sessions that carry no role above viewer: no session, no user, no
\* role, and the role viewer
LowSessions == {s \in Sessions : s.role \notin {"editor", "admin"}}

\* C16: two requireRole invocations with the same required role, one read
\* from any of: no session, a session without user, a user without role, a
\* user with role viewer, and the other from any of these too, end with the
\* same outcome (the same returned role, or the same 403 response).
C16_MissingSessionLooksLikeViewer ==
    \A r \in Reqs, q \in Reqs :
        (/\ Finished(r, "requireRole") /\ authState[r] = "resolved"
         /\ Finished(q, "requireRole") /\ authState[q] = "resolved"
         /\ required[r] = required[q]
         /\ snap[r] \in LowSessions
         /\ snap[q] \in LowSessions)
        => outcome[r] = outcome[q]

C16_Witness ==
    \E r \in Reqs, q \in Reqs :
        /\ Finished(r, "requireRole") /\ authState[r] = "resolved"
        /\ Finished(q, "requireRole") /\ authState[q] = "resolved"
        /\ required[r] = "editor"
        /\ required[q] = "editor"
        /\ ~snap[r].exists
        /\ snap[q].role = "viewer"
        /\ outcome[r].status = 403

\* the sample pathnames that begin with /dashboard, listed one by one
UnderDashboard == {DashboardPath, InvoicesPage, DashboardsPath}

CarriesUser(auth) == auth.exists /\ auth.hasUser

\* C17: authorized decides every request by this table: a path starting with
\* /dashboard is allowed exactly when the session carries a user, and is
\* otherwise refused and sent to the login page; a signed-in request to any
\* other path is redirected to /dashboard; a request without a user to any
\* other path is allowed. No request without a user is allowed onto a
\* /dashboard path.
C17_AuthorizedDecisionTable ==
    authzReq.made =>
        /\ (authzReq.pathname \in UnderDashboard /\ CarriesUser(authzReq.auth))
              => authzDecision.kind = "allow"
        /\ (authzReq.pathname \in UnderDashboard /\ ~CarriesUser(authzReq.auth))
              => (authzDecision.kind = "refuse" /\ authzDecision.to = LoginPath)
        /\ (authzReq.pathname \notin UnderDashboard /\ CarriesUser(authzReq.auth))
              => (authzDecision.kind = "redirect"
                  /\ authzDecision.to = DashboardPath)
        /\ (authzReq.pathname \notin UnderDashboard /\ ~CarriesUser(authzReq.auth))
              => authzDecision.kind = "allow"

C17_Witness ==
    /\ authzReq.made
    /\ ~CarriesUser(authzReq.auth)
    /\ authzReq.pathname = InvoicesPage
    /\ authzDecision.kind = "refuse"

\* the five variables validateEnv is said to demand
FiveRequired == {"AUTH_SECRET", "DATABASE_URL", "PGUSER", "PGDATABASE",
                 "PGPASSWORD"}

UnsetOrEmpty(names) == {v \in names : env[v] \in {Undefined, ""}}

DeclaredAt(v) == CHOOSE i \in DOMAIN requiredEnvVars : requiredEnvVars[i] = v

NamedIn(message) == {message[i] : i \in DOMAIN message} \cap EnvNames

C19_AllSixValidatedOnStartup ==
    (envResult # NotRun /\ \E v \in EnvNames : env[v] = Undefined)
        => envResult.kind = "throw"

\* C20: a createInvoice submission whose customerId is the empty string is
\* rejected with an error state and never reaches prisma.invoices.create.
C20_EmptyCustomerIdRejected ==
    \A r \in Reqs :
        (op[r] = "createInvoice" /\ form[r] # NoForm
            /\ form[r].customerId = "")
           => (pc[r] \notin {"create", "written"} /\ ~wrote[r])

\* C22: every stored invoice amount is positive: each row of the invoices
\* table holds, in cents, 100 times an amount that passed validation, and a
\* submission with a zero or negative amount never gets to a write.
C22_StoredAmountsArePositive ==
    /\ \A id \in InvoiceIds :
          Present(id) =>
             /\ invoices[id].amount > 0
             /\ \E f \in Forms : f.amount > 0 /\ invoices[id] = InvoiceRow(f)
    /\ \A r \in Reqs :
          pc[r] \in {"create", "update", "written"}
             /\ op[r] \in {"createInvoice", "updateInvoice"}
             => form[r].amount > 0

C22_Witness ==
    \E id \in InvoiceIds, r \in Reqs :
        /\ Present(id)
        /\ invoices[id].amount = 100
        /\ Finished(r, "updateInvoice")
        /\ wrote[r]

WritingActions == {"createInvoice", "updateInvoice"}

C26_OrderInState ==
    \A r \in Reqs :
        op[r] \in WritingActions =>
           /\ pc[r] \in {"create", "update"}
                 => (ParseSuccess(form[r]) /\ ~wrote[r] /\ ~revalidated[r])
           /\ pc[r] = "written"
                 => (ParseSuccess(form[r]) /\ wrote[r] /\ ~revalidated[r])
           /\ revalidated[r] => wrote[r]
           /\ outcome[r].kind = "redirect"
                 => (wrote[r] /\ revalidated[r]
                     /\ outcome[r].body = InvoicesPath)
           /\ outcome[r].kind = "errors"
                 => (~wrote[r] /\ ~revalidated[r])
           /\ outcome[r].kind = "message"
                 => (outcome[r].body = DatabaseError
                     /\ ~wrote[r] /\ ~revalidated[r])

\* C26: createInvoice and updateInvoice go validate, write, revalidate,
\* redirect: the write is attempted only after a successful validation;
\* revalidatePath and the redirect to /dashboard/invoices happen together and
\* only after the write succeeded; a validation failure returns field errors
\* and a write failure the 'Database Error' message, both without a write
\* taking effect, a revalidation or a redirect.
C26_ValidateWriteRevalidateRedirect ==
    /\ []C26_OrderInState
    /\ [][\A r \in Reqs :
            /\ (wrote'[r] /\ ~wrote[r])
                  => (pc[r] \in {"create", "update", "delete"}
                      /\ (op[r] \in WritingActions => ParseSuccess(form[r])))
            /\ (revalidated'[r] /\ ~revalidated[r])
                  => (wrote[r] /\ pc[r] = "written"
                      /\ (op[r] \in WritingActions
                             => outcome'[r].kind = "redirect"))]_vars

C26_Witness ==
    \E r \in Reqs :
        /\ Finished(r, "updateInvoice")
        /\ outcome[r].kind = "message"
        /\ outcome[r].body = DatabaseError
        /\ ~wrote[r]
        /\ ~revalidated[r]

\* C21: in every state reachable by the server actions, every invoice's
\* customer_id is the id of an existing customer.
C21_ReferentialIntegrity ==
    \A i \in InvoiceIds :
        Present(i) => CustomerPresent(invoices[i].customer_id)

InvoicesOf(id) == {i \in InvoiceIds : invoices[i].customer_id = id}

Selected(query) ==
    {k \in RowKinds :
        /\ k.customer # NullCustomer
        /\ \/ query = Str_Empty
           \/ query = Str_paid /\ k.status = Str_paid
           \/ query = Str_AMY /\ k.customer = AmyBurns
           \/ query = Str_666 /\ k.amount = 666
           \/ query = Str_Date1 /\ k.date = Str_Date1}

RECURSIVE SumOver(_, _)
SumOver(t, kinds) ==
    IF kinds = {} THEN 0
    ELSE LET k == CHOOSE x \in kinds : TRUE
         IN  t[k] + SumOver(t, kinds \ {k})

\* the least number of pages of 6 that hold n invoices
PagesFor(n) == CHOOSE k \in 0..n : 6 * k >= n /\ (k = 0 \/ 6 * (k - 1) < n)

\* C23: fetchInvoicesPages(query) is ceil(n / 6) for the n invoices the
\* filter of fetchFilteredInvoices selects; fetchFilteredInvoices(query, p)
\* returns the invoices after the first (p - 1) * 6, at most 6 of them, none
\* exactly when p is beyond the number of pages; and a query never has more
\* pages than the empty query.
C23_PaginationConsistent ==
    /\ pageCount.made =>
          /\ pageCount.pages
                = PagesFor(SumOver(listing, Selected(pageCount.query)))
          /\ pageCount.pages <= PagesFor(SumOver(listing, Selected(Str_Empty)))
    /\ pageRows.made =>
          LET n == SumOver(listing, Selected(pageRows.query))
              skipped == (pageRows.page - 1) * 6
              left == IF n > skipped THEN n - skipped ELSE 0
          IN  /\ Len(pageRows.rows) <= 6
              /\ Len(pageRows.rows) = (IF left > 6 THEN 6 ELSE left)
              /\ \A i \in DOMAIN pageRows.rows :
                    pageRows.rows[i] \in Selected(pageRows.query)
              /\ (Len(pageRows.rows) > 0) <=> (pageRows.page <= PagesFor(n))
    /\ (pageCount.made /\ pageRows.made /\ pageCount.query = pageRows.query)
          => ((Len(pageRows.rows) > 0) <=> (pageRows.page <= pageCount.pages))

C23_Witness ==
    /\ pageCount.made
    /\ pageRows.made
    /\ pageCount.query = Str_AMY
    /\ pageRows.query = Str_AMY
    /\ pageCount.pages = 2
    /\ pageRows.page = 2
    /\ Len(pageRows.rows) = 1
    /\ \E k \in RowKinds : k.customer = NullCustomer /\ listing[k] > 0

Months == {seed_revenue[i].month : i \in 1..Len(seed_revenue)}

C25_SeedReproducible ==
    seedPc.at = "complete" =>
        /\ Cardinality(tblUsers) = 1
        /\ Cardinality(tblCustomers) = 6
        /\ Len(tblInvoices) = 13
        /\ Cardinality(tblRevenue) = 12
        /\ Cardinality(Months) = 12
        /\ \A m \in Months :
              Cardinality({row \in tblRevenue : row.month = m}) = 1
        /\ tblCustomers = {seed_customers[i] : i \in 1..Len(seed_customers)}
        /\ \A i \in 1..Len(tblInvoices) :
              tblInvoices[i].customer_id \in tblCustomers

C25_Witness ==
    /\ seedPc.at = "complete"
    /\ seedRuns = MaxSeedRuns
    /\ Len(tblInvoices) = 13
    /\ Cardinality(tblCustomers) = 6

\* C28: on a signed-in session getCurrentUserRole resolves the role the
\* user record had at sign-in, 'viewer' when it had none; the jwt callback
\* changes the token's role only when a user is present; a role is on a
\* session only when the token has that role.
RoleAtSignIn == IF signedRole \in Roles THEN signedRole ELSE "viewer"

C28_RoleFixedAtSignIn ==
    /\ [](/\ (resolved.made /\ resolved.hasUser) => resolved.role = RoleAtSignIn
          /\ token.live => token.role = signedRole
          /\ issued.role # Undefined =>
                (token.live /\ issued.hasUser /\ issued.role = token.role))
    /\ [][token.live /\ token'.live /\ signedRole' = signedRole
             => token'.role = token.role]_vars

C28_Witness ==
    /\ resolved.made
    /\ resolved.hasUser
    /\ resolved.role = "admin"
    /\ signedRole = "admin"
    /\ userRecord = "viewer"
    /\ jwtCalls > 1

\* C29: for every role pair and every session (none, no user, no role, each
\* role) each exported function of the standalone copy of the RBAC logic
\* gives the result of the function of that name of rbac with rbac-core:
\* the same boolean, the same resolved role, the same 403 denial.
C29_CopiesEquivalent ==
    /\ both.made => both.standalone = both.rbac
    /\ \A s \in Sessions, r \in Roles, req \in Roles, fn \in Exported :
          OfStandalone(fn, s, r, req) = OfRbac(fn, s, r, req)

C29_Witness ==
    /\ both.made
    /\ both.fn = "requireRole"
    /\ both.session = [exists |-> TRUE, hasUser |-> TRUE, role |-> Undefined]
    /\ both.required = "editor"
    /\ both.standalone.settled = Forbidden
    /\ both.rbac.settled = Forbidden
    /\ compared > 1

\* every content the invoices table can have
InvoiceTables ==
    [InvoiceIds -> {NoInvoice} \cup {InvoiceRow(f) : f \in {g \in Forms : ParseSuccess(g)}}]

CustomerTables == [CustomerIds -> {NoCustomer} \cup {CustomerRow(cf) : cf \in CustForms}]

\* C30: the four figures one fetchCardData call returns (invoice count,
\* customer count, paid total, pending total) are the figures of one content
\* of the tables, also when createInvoice, updateInvoice, deleteInvoice or
\* deleteCustomer run during the call.
C30_CardFiguresOfOneState ==
    card.made =>
        \E tbl \in InvoiceTables, cust \in CustomerTables :
            card = CardOf(ReadOf(tbl, cust))

====
